---- MODULE Spec2Model ----
(***************************************************************************)
(* Functional programming support of the Falcon core module               *)
(* (functional_ext.cpp): the combinators any, all, map, xmap, filter,      *)
(* reduce, cascade, dolist, floop, times, iff, choice and eq, run on top   *)
(* of the VM's return-handler (continuation) protocol.                     *)
(*                                                                         *)
(* One combinator invocation is modelled at a time.  The entry function    *)
(* (core_xxx) reads its parameters, may install a return handler and push  *)
(* a nested frame; the VM executes the nested frame (ExecFrame) and then   *)
(* calls the installed return handler (core_xxx_next) until the handler    *)
(* reports completion.                                                     *)
(***************************************************************************)
EXTENDS Integers, Sequences, FiniteSets, TLC

VARIABLES
    pc,        \* "idle" | "AwaitingCall" | "Resumed" | "Done" | "Error" (raised
               \* by the combinator) | "Aborted" (raised by a nested call) |
               \* "Hung" (the native function never returns) | "Crashed"
               \* (the process is stopped by a trap)
    func,      \* the combinator being run ("" while idle)
    params,    \* vm->param(i) is params[i+1]
    locals,    \* vm->local(i) is locals[i+1]
    regA,      \* the VM return register
    handler,   \* the installed return handler ("none" for 0)
    frame,     \* the nested frame the VM has to execute next
    calls,     \* observation: the call frames pushed so far, in order
    evals,     \* observation: the items handed to functionalEval, in order
    \* an ItemArray
    m_alloc,   \* number of slots of the buffer
    m_size,    \* number of slots in use
    m_data,    \* the buffer: m_data[i+1] is slot i
    aop,       \* observation: the last operation done on the array
    \* an ItemList and its iterators
    elements,  \* the chain of elements from m_head to m_tail
    m_iters,   \* the registered iterators and the element each one is on
    lop        \* observation: the last operation done on the list

vmvars == <<pc, func, params, locals, regA, handler, frame, calls, evals>>
avars == <<m_alloc, m_size, m_data, aop>>
lvars == <<elements, m_iters, lop>>
\* the containers
cvars == <<avars, lvars>>
vars == <<vmvars, avars, lvars>>

-----------------------------------------------------------------------------
(* Bounds *)

MaxLen == 3      \* longest sequence handed to a combinator
MaxArgs == 2     \* most extra arguments handed to cascade
Mod == 5         \* the callables of the test bench compute modulo Mod
MaxCalls == 4    \* calls after which floop and times are not followed further
MaxTasks == 2    \* longest sequence handed to times

-----------------------------------------------------------------------------
(* Items *)

Nil == [tag |-> "nil", v |-> 0, oob |-> FALSE]
Integer(n) == [tag |-> "int", v |-> n, oob |-> FALSE]
Func(name) == [tag |-> "func", name |-> name, oob |-> FALSE]
Arr(s) == [tag |-> "arr", elems |-> s, oob |-> FALSE]
\* a callable array: evaluating it in functional context runs user code
\* (a nested frame) that yields the integer r
Sigma(r) == [tag |-> "sigma", v |-> r, oob |-> FALSE]
Range(from, to, by, isOpen) ==
    [tag |-> "range", start |-> from, end |-> to, step |-> by, open |-> isOpen, oob |-> FALSE]
\* the sigma [lit, itm], whose reduction is itm itself
Lit(itm) == [tag |-> "lit", of |-> itm, oob |-> FALSE]
\* a parameter passed by reference; n is the value of the variable referred
Ref(n) == [tag |-> "ref", v |-> n, oob |-> FALSE]

setOob(itm) == [itm EXCEPT !.oob = TRUE]
resetOob(itm) == [itm EXCEPT !.oob = FALSE]
isOob(itm) == itm.oob
isArray(itm) == itm.tag = "arr"
\* a function, or an array whose first element is a function
isCallable(itm) ==
    \/ itm.tag = "func"
    \/ itm.tag = "arr" /\ itm.elems # <<>> /\ itm.elems[1].tag = "func"
isInteger(itm) == itm.tag = "int"
asInteger(itm) == itm.v

isTrue(itm) ==
    CASE itm.tag = "nil" -> FALSE
      [] itm.tag = "int" -> itm.v # 0
      [] itm.tag = "arr" -> Len(itm.elems) # 0
      [] OTHER -> TRUE

\* the array held by an item, with one more element at its end
append(arrItem, itm) == [arrItem EXCEPT !.elems = Append(@, itm)]

-----------------------------------------------------------------------------
(* The callables of the test bench: total functions of their argument list *)

Fns == {"mix", "inc", "isZero", "oobIfZero", "decline", "raiseIfZero"}

Num(itm) ==
    CASE itm.tag = "int" -> itm.v
      [] itm.tag = "sigma" -> 3 + itm.v
      [] itm.tag = "arr" -> Len(itm.elems)
      [] OTHER -> 0

RECURSIVE ArgVal(_)
ArgVal(args) ==
    IF args = <<>> THEN 0
    ELSE (2 * ArgVal(SubSeq(args, 1, Len(args) - 1)) + Num(args[Len(args)])) % Mod

Apply(fn, args) ==
    LET n == ArgVal(args) IN
    CASE fn = "mix" -> Integer(n)
      [] fn = "inc" -> Integer((n + 1) % Mod)
      [] fn = "isZero" -> Integer(IF n = 0 THEN 1 ELSE 0)
      [] fn = "oobIfZero" -> IF n = 0 THEN setOob(Nil) ELSE Integer(n)
      [] fn = "decline" -> setOob(Nil)
      [] fn = "raiseIfZero" -> Integer(n)

\* the call ends with an error instead of a value
Raises(fn, args) == fn = "raiseIfZero" /\ ArgVal(args) = 0

\* callables with a state of their own (counters, globals): what a call
\* returns is not a function of its arguments
Tasks == {"step", "tick"}
Signals == {Integer(1), setOob(Nil), setOob(Integer(0)), setOob(Integer(1))}

-----------------------------------------------------------------------------
(* Inputs *)

Atoms == {Integer(0), Integer(1), Integer(2)}
Sigmas == {Sigma(0), Sigma(1)}
Elems == Atoms \cup Sigmas

SeqsUpTo(E, n) == UNION {[1..k -> E] : k \in 0..n}

Callables == {Func(f) : f \in Fns} \cup {Nil}
Origins == {Arr(s) : s \in SeqsUpTo(Elems, MaxLen)} \cup {Nil}

-----------------------------------------------------------------------------
(* The VM services used by the combinators *)

NoFrame == [kind |-> "none"]
\* vm->callFrame( callable, n ) with the n parameters pushed before it
\* (a callable array is exploded: its tail comes first in the parameters)
CallFrame(callable, args) ==
    IF callable.tag = "arr"
    THEN [kind |-> "call", fn |-> callable.elems[1].name, args |-> Tail(callable.elems) \o args]
    ELSE [kind |-> "call", fn |-> callable.name, args |-> args]
\* the frame vm->functionalEval() pushes for an item that needs a reduction
EvalFrame(itm) == [kind |-> "eval", item |-> itm]

\* vm->functionalEval( itm ) returns true when a frame had to be pushed;
\* otherwise the item itself is left in A
functionalEval(itm) == itm.tag \in {"sigma", "lit"}

\* state of the invocation after the entry function or a handler returned
\* with a nested frame pushed
Suspended(f) == pc' = "AwaitingCall" /\ frame' = f
\* ... after the entry function returned without pushing a frame
Returned == pc' = "Resumed" /\ frame' = NoFrame
\* ... after a handler returned false: the frame of the combinator unrolls
Unrolled == pc' = "Done" /\ frame' = NoFrame

\* vm->pushParameter() n times, then vm->callFrame( callable, n )
callFrame(callable, args) ==
    /\ calls' = Append(calls, CallFrame(callable, args))
    /\ Suspended(CallFrame(callable, args))

\* no operation has been done yet on the container
NoOperation ==
    [name |-> "none", args |-> <<>>, ret |-> "void", out |-> <<>>, outsize |-> 0,
     outalloc |-> 0, created |-> FALSE, wild |-> FALSE, crashed |-> FALSE]
\* ItemArray()
ArrayIdle == m_alloc = 0 /\ m_size = 0 /\ m_data = <<>> /\ aop = NoOperation
\* ItemList()
ListIdle == elements = <<>> /\ m_iters = <<>> /\ lop = NoOperation

Init ==
    /\ pc = "idle"
    /\ func = ""
    /\ params = <<>>
    /\ locals = <<>>
    /\ regA \in {Nil, Integer(4)}      \* whatever the previous operation left
    /\ handler = "none"
    /\ frame = NoFrame
    /\ calls = <<>>
    /\ evals = <<>>
    /\ ArrayIdle /\ ListIdle

\* the VM while the containers are exercised on their own
VMIdle ==
    /\ pc = "idle" /\ func = "" /\ params = <<>> /\ locals = <<>> /\ regA = Nil
    /\ handler = "none" /\ frame = NoFrame /\ calls = <<>> /\ evals = <<>>

\* the values the nested frame f may leave in A
Results(f) ==
    IF f.kind = "eval"
    THEN {IF f.item.tag = "lit" THEN f.item.of ELSE Integer(f.item.v)}
    ELSE IF f.fn \in Tasks THEN Signals
    ELSE {Apply(f.fn, f.args)}

Fails_never(f) == FALSE
\* the nested frame f ends with an error
Fails(f) == f.kind = "call" /\ f.fn \notin Tasks /\ Raises(f.fn, f.args)

\* the VM runs the nested frame to its end; its result is left in A
ExecFrame ==
    /\ pc = "AwaitingCall"
    /\ ~Fails(frame)
    /\ regA' \in Results(frame)
    /\ pc' = "Resumed"
    /\ frame' = NoFrame
    /\ UNCHANGED <<func, params, locals, handler, calls, evals>>
    /\ UNCHANGED cvars

\* the frame of the combinator is left with no return handler installed
callReturn ==
    /\ pc = "Resumed"
    /\ handler = "none"
    /\ Unrolled
    /\ UNCHANGED <<func, params, locals, regA, handler, calls, evals>>
    /\ UNCHANGED cvars

\* the nested frame raises: the VM unrolls the frames without calling the
\* return handlers
ExecFrameRaise ==
    /\ pc = "AwaitingCall"
    /\ Fails(frame)
    /\ pc' = "Aborted"
    /\ frame' = NoFrame
    /\ UNCHANGED <<func, params, locals, regA, handler, calls, evals>>
    /\ UNCHANGED cvars

raiseRTError ==
    /\ pc' = "Error"
    /\ frame' = NoFrame
    /\ UNCHANGED <<locals, regA, handler, calls, evals>>

-----------------------------------------------------------------------------
(* reduce *)

InitOpts == {<<>>, <<Integer(1)>>, <<Integer(2)>>}

reduce_args_swapped(last, elem) == <<elem, last>>
\* the two parameters of a call of the reductor
reduce_args(last, elem) == <<last, elem>>

reduce_done_early(count, length) == count + 1 >= length
\* enough calls made?
reduce_done(count, length) == count >= length

core_reduce ==
    /\ pc = "idle"
    /\ \E callable \in Callables, i_origin \in Origins, init \in InitOpts :
        /\ func' = "reduce"
        /\ params' = <<callable, i_origin>> \o init
        /\ IF ~isCallable(callable) \/ ~isArray(i_origin)
           THEN raiseRTError
           ELSE LET origin == i_origin.elems IN
             /\ evals' = evals
             /\ IF init # <<>>
                THEN IF Len(origin) = 0
                     THEN /\ regA' = init[1]
                          /\ locals' = <<Nil>>
                          /\ Returned
                          /\ UNCHANGED <<handler, calls>>
                     ELSE /\ handler' = "core_reduce_next"
                          /\ locals' = <<Integer(1)>>
                          /\ callFrame(callable, reduce_args(init[1], origin[1]))
                          /\ regA' = regA
                ELSE IF Len(origin) = 0
                     THEN /\ regA' = Nil
                          /\ locals' = <<Nil>>
                          /\ Returned
                          /\ UNCHANGED <<handler, calls>>
                     ELSE IF Len(origin) = 1
                     THEN /\ regA' = origin[1]
                          /\ locals' = <<Nil>>
                          /\ Returned
                          /\ UNCHANGED <<handler, calls>>
                     ELSE /\ handler' = "core_reduce_next"
                          /\ locals' = <<Integer(2)>>
                          /\ callFrame(callable, reduce_args(origin[1], origin[2]))
                          /\ regA' = regA
    /\ UNCHANGED cvars

core_reduce_next ==
    /\ pc = "Resumed"
    /\ handler = "core_reduce_next"
    /\ LET origin == params[2].elems
           count == asInteger(locals[1])
       IN IF reduce_done(count, Len(origin))
          THEN /\ Unrolled
               /\ UNCHANGED <<locals, calls>>
          ELSE /\ locals' = [locals EXCEPT ![1] = Integer(count + 1)]
               /\ callFrame(params[1], reduce_args(regA, origin[count + 1]))
    /\ UNCHANGED <<func, params, regA, handler, evals>>
    /\ UNCHANGED cvars

-----------------------------------------------------------------------------
(* map *)

map_accept_all(result) == TRUE
\* is the value returned by the mapping function added to the mapped array?
map_accept(result) == ~isOob(result)

core_map ==
    /\ pc = "idle"
    /\ \E callable \in Callables, i_origin \in Origins :
        /\ func' = "map"
        /\ params' = <<callable, i_origin>>
        /\ IF ~isCallable(callable) \/ ~isArray(i_origin)
           THEN raiseRTError
           ELSE LET origin == i_origin.elems
                    mapped == Arr(<<>>)
                IN /\ evals' = evals
                   /\ IF Len(origin) > 0
                      THEN /\ handler' = "core_map_next"
                           /\ locals' = <<Integer(1), mapped>>
                           /\ callFrame(callable, <<origin[1]>>)
                           /\ regA' = regA
                      ELSE /\ regA' = mapped
                           /\ locals' = <<>>
                           /\ Returned
                           /\ UNCHANGED <<handler, calls>>
    /\ UNCHANGED cvars

core_map_next ==
    /\ pc = "Resumed"
    /\ handler = "core_map_next"
    /\ LET origin == params[2].elems
           count == asInteger(locals[1])
           mapped == IF map_accept(regA) THEN append(locals[2], regA) ELSE locals[2]
       IN IF count < Len(origin)
          THEN /\ locals' = <<Integer(count + 1), mapped>>
               /\ callFrame(params[1], <<origin[count + 1]>>)
               /\ regA' = regA
          ELSE /\ locals' = <<locals[1], mapped>>
               /\ regA' = mapped
               /\ Unrolled
               /\ calls' = calls
    /\ UNCHANGED <<func, params, handler, evals>>
    /\ UNCHANGED cvars

-----------------------------------------------------------------------------
(* xmap *)

\* is the value found in A added to the mapped array?
xmap_accept(result) == ~isOob(result)

core_xmap ==
    /\ pc = "idle"
    /\ \E callable \in Callables, i_origin \in Origins :
        /\ func' = "xmap"
        /\ params' = <<callable, i_origin>>
        /\ IF ~isCallable(callable) \/ ~isArray(i_origin)
           THEN raiseRTError
           ELSE LET origin == i_origin.elems
                    mapped == Arr(<<>>)
                IN IF Len(origin) > 0
                   THEN /\ handler' = "core_xmap_next"
                        /\ evals' = Append(evals, origin[1])
                        /\ IF functionalEval(origin[1])
                           THEN /\ locals' = <<Integer(1), mapped, Integer(0)>>
                                /\ Suspended(EvalFrame(origin[1]))
                                /\ UNCHANGED <<regA, calls>>
                           ELSE /\ locals' = <<Integer(1), mapped, Integer(1)>>
                                /\ regA' = origin[1]
                                /\ callFrame(callable, <<origin[1]>>)
                   ELSE /\ regA' = mapped
                        /\ locals' = <<>>
                        /\ Returned
                        /\ UNCHANGED <<handler, calls, evals>>
    /\ UNCHANGED cvars

core_xmap_next ==
    /\ pc = "Resumed"
    /\ handler = "core_xmap_next"
    /\ LET origin == params[2].elems
           count == asInteger(locals[1])
           mapped == IF xmap_accept(regA) THEN append(locals[2], regA) ELSE locals[2]
       IN IF count < Len(origin)
          THEN IF asInteger(locals[3]) = 1
               THEN /\ evals' = Append(evals, origin[count + 1])
                    /\ IF functionalEval(origin[count + 1])
                       THEN /\ locals' = <<Integer(count + 1), mapped, Integer(0)>>
                            /\ Suspended(EvalFrame(origin[count + 1]))
                            /\ UNCHANGED <<regA, calls>>
                       ELSE /\ locals' = <<Integer(count + 1), mapped, Integer(1)>>
                            /\ regA' = origin[count + 1]
                            /\ callFrame(params[1], <<origin[count + 1]>>)
               ELSE /\ locals' = [locals EXCEPT ![3] = Integer(1)]
                    /\ callFrame(params[1], <<regA>>)
                    /\ UNCHANGED <<regA, evals>>
          ELSE /\ locals' = [locals EXCEPT ![2] = mapped]
               /\ regA' = mapped
               /\ Unrolled
               /\ UNCHANGED <<calls, evals>>
    /\ UNCHANGED <<func, params, handler>>
    /\ UNCHANGED cvars

-----------------------------------------------------------------------------
(* filter *)

filter_keep_not_oob(result) == ~isOob(result)
\* is the element kept, given what the filter function returned for it?
filter_keep(result) == isTrue(result)

core_filter ==
    /\ pc = "idle"
    /\ \E callable \in Callables, i_origin \in Origins :
        /\ func' = "filter"
        /\ params' = <<callable, i_origin>>
        /\ IF ~isCallable(callable) \/ ~isArray(i_origin)
           THEN raiseRTError
           ELSE LET origin == i_origin.elems
                    mapped == Arr(<<>>)
                IN /\ evals' = evals
                   /\ IF Len(origin) > 0
                      THEN /\ handler' = "core_filter_next"
                           /\ locals' = <<mapped, Integer(1)>>
                           /\ callFrame(callable, <<origin[1]>>)
                           /\ regA' = regA
                      ELSE /\ regA' = mapped
                           /\ locals' = <<>>
                           /\ Returned
                           /\ UNCHANGED <<handler, calls>>
    /\ UNCHANGED cvars

core_filter_next ==
    /\ pc = "Resumed"
    /\ handler = "core_filter_next"
    /\ LET origin == params[2].elems
           count == asInteger(locals[2])
           mapped == IF filter_keep(regA) THEN append(locals[1], origin[count]) ELSE locals[1]
       IN IF count = Len(origin)
          THEN /\ locals' = <<mapped, locals[2]>>
               /\ regA' = mapped
               /\ Unrolled
               /\ calls' = calls
          ELSE /\ locals' = <<mapped, Integer(count + 1)>>
               /\ callFrame(params[1], <<origin[count + 1]>>)
               /\ regA' = regA
    /\ UNCHANGED <<func, params, handler, evals>>
    /\ UNCHANGED cvars

-----------------------------------------------------------------------------
(* any, all *)

\* the loop of any() without the truth check of the items that need no frame
RECURSIVE any_loop_unchecked(_, _, _)
any_loop_unchecked(arr, count, a) ==
    IF count < Len(arr)
    THEN LET itm == arr[count + 1] IN
         IF functionalEval(itm)
         THEN [out |-> "frame", next |-> count + 1, seen |-> <<itm>>, a |-> a]
         ELSE LET r == any_loop_unchecked(arr, count + 1, itm)
              IN [r EXCEPT !.seen = <<itm>> \o @]
    ELSE [out |-> "end", next |-> count, seen |-> <<>>, a |-> a]

\* The loop shared by core_any and core_any_next: evaluate the items from
\* position count on, until one needs a frame (out = "frame"), one is true
\* (out = "found") or the array ends (out = "end").  next is the value left
\* in local 0, seen the items given to functionalEval, a the value left in A.
RECURSIVE any_loop(_, _, _)
any_loop(arr, count, a) ==
    IF count < Len(arr)
    THEN LET itm == arr[count + 1] IN
         IF functionalEval(itm)
         THEN [out |-> "frame", next |-> count + 1, seen |-> <<itm>>, a |-> a]
         ELSE IF isTrue(itm)
         THEN [out |-> "found", next |-> count + 1, seen |-> <<itm>>, a |-> itm]
         ELSE LET r == any_loop(arr, count + 1, itm)
              IN [r EXCEPT !.seen = <<itm>> \o @]
    ELSE [out |-> "end", next |-> count, seen |-> <<>>, a |-> a]

\* The loop shared by core_all and core_all_next; out = "found" when an
\* item is not true.
RECURSIVE all_loop(_, _, _)
all_loop(arr, count, a) ==
    IF count < Len(arr)
    THEN LET itm == arr[count + 1] IN
         IF functionalEval(itm)
         THEN [out |-> "frame", next |-> count + 1, seen |-> <<itm>>, a |-> a]
         ELSE IF ~isTrue(itm)
         THEN [out |-> "found", next |-> count + 1, seen |-> <<itm>>, a |-> itm]
         ELSE LET r == all_loop(arr, count + 1, itm)
              IN [r EXCEPT !.seen = <<itm>> \o @]
    ELSE [out |-> "end", next |-> count, seen |-> <<>>, a |-> a]

all_empty_vacuous == Integer(1)
\* what all() returns for an empty sequence
all_empty == Integer(0)

core_any ==
    /\ pc = "idle"
    /\ \E i_param \in Origins :
        /\ func' = "any"
        /\ params' = <<i_param>>
        /\ IF ~isArray(i_param)
           THEN raiseRTError
           ELSE LET r == any_loop(i_param.elems, 0, regA) IN
                /\ evals' = evals \o r.seen
                /\ locals' = <<IF r.seen = <<>> THEN Nil ELSE Integer(r.next)>>
                /\ calls' = calls
                /\ IF r.out = "frame"
                   THEN /\ handler' = "core_any_next"
                        /\ regA' = r.a
                        /\ Suspended(EvalFrame(r.seen[Len(r.seen)]))
                   ELSE /\ handler' = "none"
                        /\ regA' = Integer(IF r.out = "found" THEN 1 ELSE 0)
                        /\ Returned
    /\ UNCHANGED cvars

core_any_next ==
    /\ pc = "Resumed"
    /\ handler = "core_any_next"
    /\ IF isTrue(regA)
       THEN /\ regA' = Integer(1)
            /\ Unrolled
            /\ UNCHANGED <<locals, evals>>
       ELSE LET r == any_loop(params[1].elems, asInteger(locals[1]), regA) IN
            /\ evals' = evals \o r.seen
            /\ locals' = <<Integer(r.next)>>
            /\ IF r.out = "frame"
               THEN /\ regA' = r.a
                    /\ Suspended(EvalFrame(r.seen[Len(r.seen)]))
               ELSE /\ regA' = Integer(IF r.out = "found" THEN 1 ELSE 0)
                    /\ Unrolled
    /\ UNCHANGED <<func, params, handler, calls>>
    /\ UNCHANGED cvars

core_all ==
    /\ pc = "idle"
    /\ \E i_param \in Origins :
        /\ func' = "all"
        /\ params' = <<i_param>>
        /\ IF ~isArray(i_param)
           THEN raiseRTError
           ELSE IF Len(i_param.elems) = 0
           THEN /\ regA' = all_empty
                /\ Returned
                /\ UNCHANGED <<locals, handler, calls, evals>>
           ELSE LET r == all_loop(i_param.elems, 0, regA) IN
                /\ evals' = evals \o r.seen
                /\ locals' = <<Integer(r.next)>>
                /\ calls' = calls
                /\ IF r.out = "frame"
                   THEN /\ handler' = "core_all_next"
                        /\ regA' = r.a
                        /\ Suspended(EvalFrame(r.seen[Len(r.seen)]))
                   ELSE /\ handler' = "none"
                        /\ regA' = Integer(IF r.out = "found" THEN 0 ELSE 1)
                        /\ Returned
    /\ UNCHANGED cvars

core_all_next ==
    /\ pc = "Resumed"
    /\ handler = "core_all_next"
    /\ IF ~isTrue(regA)
       THEN /\ regA' = Integer(0)
            /\ Unrolled
            /\ UNCHANGED <<locals, evals>>
       ELSE LET r == all_loop(params[1].elems, asInteger(locals[1]), regA) IN
            /\ evals' = evals \o r.seen
            /\ locals' = <<Integer(r.next)>>
            /\ IF r.out = "frame"
               THEN /\ regA' = r.a
                    /\ Suspended(EvalFrame(r.seen[Len(r.seen)]))
               ELSE /\ regA' = Integer(IF r.out = "found" THEN 0 ELSE 1)
                    /\ Unrolled
    /\ UNCHANGED <<func, params, handler, calls>>
    /\ UNCHANGED cvars

-----------------------------------------------------------------------------
(* anyp, allp: the sequence is the parameter list itself *)

ParamLists == SeqsUpTo(Elems, MaxLen)

core_anyp ==
    /\ pc = "idle"
    /\ \E args \in ParamLists :
        /\ func' = "anyp"
        /\ params' = args
        /\ LET r == any_loop(args, 0, regA) IN
           /\ evals' = evals \o r.seen
           /\ locals' = <<IF r.seen = <<>> THEN Nil ELSE Integer(r.next)>>
           /\ calls' = calls
           /\ IF r.out = "frame"
              THEN /\ handler' = "core_anyp_next"
                   /\ regA' = r.a
                   /\ Suspended(EvalFrame(r.seen[Len(r.seen)]))
              ELSE /\ handler' = "none"
                   /\ regA' = Integer(IF r.out = "found" THEN 1 ELSE 0)
                   /\ Returned
    /\ UNCHANGED cvars

core_anyp_next ==
    /\ pc = "Resumed"
    /\ handler = "core_anyp_next"
    /\ IF isTrue(regA)
       THEN /\ regA' = Integer(1)
            /\ Unrolled
            /\ UNCHANGED <<locals, evals>>
       ELSE LET r == any_loop(params, asInteger(locals[1]), regA) IN
            /\ evals' = evals \o r.seen
            /\ locals' = <<Integer(r.next)>>
            /\ IF r.out = "frame"
               THEN /\ regA' = r.a
                    /\ Suspended(EvalFrame(r.seen[Len(r.seen)]))
               ELSE /\ regA' = Integer(IF r.out = "found" THEN 1 ELSE 0)
                    /\ Unrolled
    /\ UNCHANGED <<func, params, handler, calls>>
    /\ UNCHANGED cvars

core_allp ==
    /\ pc = "idle"
    /\ \E args \in ParamLists :
        /\ func' = "allp"
        /\ params' = args
        /\ IF Len(args) = 0
           THEN \* the handler installed at entry is left there
                /\ handler' = "core_allp_next"
                /\ locals' = <<Nil>>
                /\ regA' = Integer(0)
                /\ Returned
                /\ UNCHANGED <<calls, evals>>
           ELSE LET r == all_loop(args, 0, regA) IN
                /\ evals' = evals \o r.seen
                /\ locals' = <<Integer(r.next)>>
                /\ calls' = calls
                /\ IF r.out = "frame"
                   THEN /\ handler' = "core_allp_next"
                        /\ regA' = r.a
                        /\ Suspended(EvalFrame(r.seen[Len(r.seen)]))
                   ELSE /\ handler' = "none"
                        /\ regA' = Integer(IF r.out = "found" THEN 0 ELSE 1)
                        /\ Returned
    /\ UNCHANGED cvars

core_allp_next ==
    /\ pc = "Resumed"
    /\ handler = "core_allp_next"
    /\ IF ~isTrue(regA)
       THEN /\ regA' = Integer(0)
            /\ Unrolled
            /\ UNCHANGED <<locals, evals>>
       ELSE LET r == all_loop(params, asInteger(locals[1]), regA) IN
            /\ evals' = evals \o r.seen
            /\ locals' = <<Integer(r.next)>>
            /\ IF r.out = "frame"
               THEN /\ regA' = r.a
                    /\ Suspended(EvalFrame(r.seen[Len(r.seen)]))
               ELSE /\ regA' = Integer(IF r.out = "found" THEN 0 ELSE 1)
                    /\ Unrolled
    /\ UNCHANGED <<func, params, handler, calls>>
    /\ UNCHANGED cvars

-----------------------------------------------------------------------------
(* dolist *)

\* does dolist go on after the processor returned result?
dolist_goes_on(result) == isTrue(result)

core_dolist ==
    /\ pc = "idle"
    /\ \E callable \in Callables, i_origin \in Origins :
        /\ func' = "dolist"
        /\ params' = <<callable, i_origin>>
        /\ IF ~isCallable(callable) \/ ~isArray(i_origin)
           THEN raiseRTError
           ELSE LET origin == i_origin.elems IN
                IF Len(origin) # 0
                THEN /\ handler' = "core_dolist_next"
                     /\ evals' = Append(evals, origin[1])
                     /\ IF functionalEval(origin[1])
                        THEN /\ locals' = <<Integer(0), Integer(0)>>
                             /\ Suspended(EvalFrame(origin[1]))
                             /\ UNCHANGED <<regA, calls>>
                        ELSE /\ locals' = <<Integer(1), Integer(1)>>
                             /\ regA' = origin[1]
                             /\ callFrame(callable, <<origin[1]>>)
                ELSE /\ Returned
                     /\ UNCHANGED <<locals, regA, handler, calls, evals>>
    /\ UNCHANGED cvars

core_dolist_next ==
    /\ pc = "Resumed"
    /\ handler = "core_dolist_next"
    /\ LET origin == params[2].elems
           count == asInteger(locals[1])
       IN IF count >= Len(origin)
          THEN /\ Unrolled
               /\ UNCHANGED <<locals, regA, calls, evals>>
          ELSE IF asInteger(locals[2]) = 1
          THEN IF ~dolist_goes_on(regA)
               THEN /\ Unrolled
                    /\ UNCHANGED <<locals, regA, calls, evals>>
               ELSE /\ evals' = Append(evals, origin[count + 1])
                    /\ IF functionalEval(origin[count + 1])
                       THEN /\ locals' = <<locals[1], Integer(0)>>
                            /\ Suspended(EvalFrame(origin[count + 1]))
                            /\ UNCHANGED <<regA, calls>>
                       ELSE /\ locals' = <<Integer(count + 1), Integer(1)>>
                            /\ regA' = origin[count + 1]
                            /\ callFrame(params[1], <<origin[count + 1]>>)
          ELSE /\ locals' = <<Integer(count + 1), Integer(1)>>
               /\ callFrame(params[1], <<regA>>)
               /\ UNCHANGED <<regA, evals>>
    /\ UNCHANGED <<func, params, handler>>
    /\ UNCHANGED cvars

-----------------------------------------------------------------------------
(* cascade *)

Stages == {Func(f) : f \in Fns} \cup {Nil}
CallLists == {Arr(s) : s \in SeqsUpTo(Stages, MaxLen)} \cup {Nil}
ArgLists == SeqsUpTo(Atoms, MaxArgs)

cascade_args_replay_always(a, accepted, initial) ==
    IF isOob(a) THEN initial ELSE <<a>>

cascade_args_no_replay(a, accepted, initial) ==
    IF isOob(a) THEN <<accepted>> ELSE <<a>>
\* the parameters of the next call, given the value a returned by the last
\* one, the last accepted value and the parameters cascade() was called with
cascade_args(a, accepted, initial) ==
    IF isOob(a)
    THEN IF isOob(accepted) THEN initial ELSE <<accepted>>
    ELSE <<a>>

\* what cascade() returns when the last callable returned a
cascade_result(a, accepted) ==
    IF isOob(a) THEN resetOob(accepted) ELSE a

core_cascade ==
    /\ pc = "idle"
    /\ \E i_callables \in CallLists, args \in ArgLists :
        /\ func' = "cascade"
        /\ params' = <<i_callables>> \o args
        /\ IF ~isArray(i_callables)
           THEN raiseRTError
           ELSE LET callables == i_callables.elems IN
                IF Len(callables) = 0
                THEN /\ regA' = Nil
                     /\ Returned
                     /\ UNCHANGED <<locals, handler, calls, evals>>
                ELSE /\ locals' = <<Integer(1), setOob(Nil)>>
                     /\ handler' = "core_cascade_next"
                     /\ UNCHANGED <<regA, evals>>
                     /\ IF isCallable(callables[1])
                        THEN callFrame(callables[1], args)
                        ELSE /\ pc' = "Error"
                             /\ frame' = NoFrame
                             /\ calls' = calls
    /\ UNCHANGED cvars

core_cascade_next ==
    /\ pc = "Resumed"
    /\ handler = "core_cascade_next"
    /\ LET callables == params[1].elems
           count == asInteger(locals[1])
       IN IF count >= Len(callables)
          THEN /\ regA' = cascade_result(regA, locals[2])
               /\ locals' = <<locals[1], IF isOob(regA) THEN resetOob(locals[2]) ELSE locals[2]>>
               /\ Unrolled
               /\ calls' = calls
          ELSE /\ locals' = <<Integer(count + 1), IF isOob(regA) THEN locals[2] ELSE regA>>
               /\ regA' = regA
               /\ IF isCallable(callables[count + 1])
                  THEN callFrame(callables[count + 1], cascade_args(regA, locals[2], Tail(params)))
                  ELSE /\ pc' = "Error"
                       /\ frame' = NoFrame
                       /\ calls' = calls
    /\ UNCHANGED <<func, params, handler, evals>>
    /\ UNCHANGED cvars

-----------------------------------------------------------------------------
(* floop *)

TaskElems == {Func(t) : t \in Tasks} \cup {Nil}
TaskLists == {Arr(s) : s \in SeqsUpTo(TaskElems, MaxLen)} \cup {Nil}

\* an out-of-band integer n in A
isSignal(a, n) == isInteger(a) /\ isOob(a) /\ asInteger(a) = n

floop_break_on_one(a) == isSignal(a, 1)
\* does the value returned by the last element end the loop?
floop_break(a) == isSignal(a, 0)

floop_position_no_restart(count, a, length) ==
    IF count + 1 >= length THEN 0 ELSE count + 1
\* the position of the next element, count being that of the last one
floop_position(count, a, length) ==
    LET next == IF isSignal(a, 1) THEN 0 ELSE count + 1
    IN IF next >= length THEN 0 ELSE next

core_floop ==
    /\ pc = "idle"
    /\ \E i_callables \in TaskLists :
        /\ func' = "floop"
        /\ params' = <<i_callables>>
        /\ IF ~isArray(i_callables)
           THEN raiseRTError
           ELSE IF Len(i_callables.elems) = 0
           THEN /\ Returned
                /\ UNCHANGED <<locals, regA, handler, calls, evals>>
           ELSE /\ locals' = <<Integer(Len(i_callables.elems))>>
                /\ handler' = "core_floop_next"
                /\ regA' = Nil
                /\ Returned
                /\ UNCHANGED <<calls, evals>>
    /\ UNCHANGED cvars

core_floop_next ==
    /\ pc = "Resumed"
    /\ handler = "core_floop_next"
    /\ LET callables == params[1].elems
           count == floop_position(asInteger(locals[1]), regA, Len(callables))
       IN IF floop_break(regA)
          THEN /\ handler' = "none"
               /\ regA' = Nil
               /\ Unrolled
               /\ UNCHANGED <<locals, calls>>
          ELSE /\ locals' = <<Integer(count)>>
               /\ handler' = handler
               /\ IF isCallable(callables[count + 1])
                  THEN /\ Len(calls) < MaxCalls
                       /\ callFrame(callables[count + 1], <<>>)
                       /\ regA' = regA
                  ELSE /\ regA' = callables[count + 1]
                       /\ Returned
                       /\ calls' = calls
    /\ UNCHANGED <<func, params, evals>>
    /\ UNCHANGED cvars

-----------------------------------------------------------------------------
(* times *)

\* start, end and step of the loop are int32
INT32_MAX == 2147483647
INT32_MIN == -INT32_MAX - 1

\* a + b does not fit an int32: the addition is undefined
overflows(a, b) ==
    \/ b > 0 /\ a > INT32_MAX - b
    \/ b < 0 /\ a < INT32_MIN - b

\* a + b as a two's complement addition leaves it
wraps(a, b) ==
    IF b > 0 /\ a > INT32_MAX - b THEN (a - INT32_MAX - 1) + (b - INT32_MAX - 1)
    ELSE IF b < 0 /\ a < INT32_MIN - b THEN (a + INT32_MAX + 1) + (b + INT32_MAX + 1)
    ELSE a + b

\* an undefined addition either wraps around or stops the process
trapped ==
    /\ pc' = "Crashed"
    /\ frame' = NoFrame
    /\ UNCHANGED <<locals, regA, handler, calls, evals>>

CountOpts == {Integer(0), Integer(2), Integer(-1), Range(0, 3, 2, FALSE),
              Range(1, 3, 1, FALSE), Range(2, 0, -1, FALSE), Range(0, 1, 2, FALSE),
              Range(1, 0, 0, TRUE), Range(INT32_MAX - 1, INT32_MAX, 2, FALSE), Nil}
VarOpts == {Nil, Integer(0), Integer(1), Ref(0), Arr(<<>>)}
TimesElems == {Func("mix"), Func("step"), Arr(<<Func("tick"), Nil>>), Nil}
TimesLists == {Arr(s) : s \in SeqsUpTo(TimesElems, MaxTasks)} \cup {Nil}

isRange(itm) == itm.tag = "range"
isOrdinal(itm) == itm.tag = "int"
isParamByRef(itm) == itm.tag = "ref"
forceInteger(itm) == IF itm.tag \in {"int", "ref"} THEN itm.v ELSE 0

\* start, end and step of the loop asked for by the count parameter
times_range(i_count) ==
    IF isRange(i_count)
    THEN Range(i_count.start, i_count.end,
               IF i_count.step = 0
               THEN (IF i_count.start > i_count.end THEN -1 ELSE 1)
               ELSE i_count.step, FALSE)
    ELSE Range(0, forceInteger(i_count), IF forceInteger(i_count) < 0 THEN -1 ELSE 1, FALSE)

\* the test for an empty loop adds the step to the start
times_adds(r) ==
    \/ r.start < r.end /\ r.step >= 0
    \/ r.start > r.end /\ r.step <= 0

\* no loop to be done?
times_empty(r, length) ==
    \/ r.start = r.end
    \/ r.start < r.end /\ (r.step < 0 \/ wraps(r.start, r.step) > r.end)
    \/ r.start > r.end /\ (r.step > 0 \/ wraps(r.start, r.step) < r.end)
    \/ length = 0

times_restart_at_end(currentItemID, length, a) == currentItemID = length
\* continue, or items terminated?
times_restart(currentItemID, length, a) ==
    currentItemID = length \/ isSignal(a, 1)

\* break, or loop terminated?
times_stop(r, a) ==
    \/ r.step > 0 /\ r.start >= r.end
    \/ r.step < 0 /\ r.start < r.end
    \/ isSignal(a, 0)

\* the element of the sequence as it is once the loop index is written in it
times_mangle(current, var, start) ==
    IF ~isParamByRef(var) /\ isArray(current) /\ forceInteger(var) > 0
       /\ Len(current.elems) > forceInteger(var)
    THEN [current EXCEPT !.elems[forceInteger(var) + 1] = Integer(start)]
    ELSE current

\* the call made for an element of the sequence
times_call(current, var, start) ==
    IF ~isParamByRef(var)
    THEN IF isArray(current)
         THEN IF forceInteger(var) <= 0
              THEN CallFrame(current, <<Integer(start)>>)
              ELSE CallFrame(times_mangle(current, var, start), <<>>)
         ELSE CallFrame(current, <<Integer(start)>>)
    ELSE CallFrame(current, <<>>)

core_times ==
    /\ pc = "idle"
    /\ \E i_count \in CountOpts, i_var \in VarOpts, i_sequence \in TimesLists :
        /\ func' = "times"
        /\ IF \/ ~(isRange(i_count) \/ isOrdinal(i_count))
              \/ ~(isParamByRef(i_var) \/ i_var = Nil \/ isOrdinal(i_var))
              \/ ~isArray(i_sequence)
           THEN params' = <<i_count, i_var, i_sequence>> /\ raiseRTError
           ELSE IF isRange(i_count) /\ i_count.open
           THEN params' = <<i_count, i_var, i_sequence>> /\ raiseRTError
           ELSE LET r == times_range(i_count) IN
                \E trap \in (IF times_adds(r) /\ overflows(r.start, r.step)
                             THEN BOOLEAN ELSE {FALSE}) :
                IF trap
                THEN params' = <<i_count, i_var, i_sequence>> /\ trapped
                ELSE IF times_empty(r, Len(i_sequence.elems))
                THEN /\ params' = <<i_count, i_var, i_sequence>>
                     /\ regA' = Integer(r.start)
                     /\ Returned
                     /\ UNCHANGED <<locals, handler, calls, evals>>
                ELSE /\ params' = <<i_count,
                                    IF isParamByRef(i_var) THEN Ref(r.start) ELSE i_var,
                                    i_sequence>>
                     /\ handler' = "core_times_next"
                     /\ locals' = <<r, Integer(0)>>
                     /\ regA' = Nil
                     /\ Returned
                     /\ UNCHANGED <<calls, evals>>
    /\ UNCHANGED cvars

core_times_next ==
    /\ pc = "Resumed"
    /\ handler = "core_times_next"
    /\ LET var == params[2]
           sequence == params[3].elems
           restart == times_restart(asInteger(locals[2]), Len(sequence), regA)
           currentItemID == IF restart THEN 0 ELSE asInteger(locals[2])
           start == IF restart THEN wraps(locals[1].start, locals[1].step)
                    ELSE locals[1].start
           range == [locals[1] EXCEPT !.start = start]
           params1 == IF restart /\ isParamByRef(var)
                      THEN [params EXCEPT ![2] = Ref(start)] ELSE params
       IN \E trap \in (IF restart /\ overflows(locals[1].start, locals[1].step)
                       THEN BOOLEAN ELSE {FALSE}) :
          IF trap
          THEN params' = params /\ trapped
          ELSE IF times_stop(range, regA)
          THEN /\ regA' = Integer(range.start)
               /\ locals' = <<range, locals[2]>>
               /\ params' = params1
               /\ Unrolled
               /\ calls' = calls
          ELSE LET current == sequence[currentItemID + 1] IN
               /\ locals' = <<range, Integer(currentItemID + 1)>>
               /\ regA' = regA
               /\ IF ~isCallable(current)
                  THEN /\ pc' = "Error"
                       /\ frame' = NoFrame
                       /\ params' = params1
                       /\ calls' = calls
                  ELSE /\ Len(calls) < MaxCalls
                       /\ params' = [params1 EXCEPT
                                       ![3].elems[currentItemID + 1] = times_mangle(current, var, start)]
                       /\ calls' = Append(calls, times_call(current, var, start))
                       /\ Suspended(times_call(current, var, start))
    /\ UNCHANGED <<func, handler, evals>>
    /\ UNCHANGED cvars

-----------------------------------------------------------------------------
(* iff, choice *)

WhenTrue == {Integer(1), Sigma(1), Lit(Sigma(1))}
WhenFalse == {Integer(2), Sigma(0), Lit(Sigma(0))}
IffArgs ==
    {<<>>} \cup {<<c>> : c \in Elems}
           \cup {<<c, t>> : c \in Elems, t \in WhenTrue}
           \cup {<<c, t, f>> : c \in Elems, t \in WhenTrue, f \in WhenFalse}

iff_select_true(a, args) == <<args[2]>>
\* the branch selected by the value of the condition, if there is one
iff_select(a, args) ==
    IF isTrue(a) THEN <<args[2]>>
    ELSE IF Len(args) >= 3 THEN <<args[3]>> ELSE <<>>

core_iff ==
    /\ pc = "idle"
    /\ \E args \in IffArgs :
        /\ func' = "iff"
        /\ params' = args
        /\ IF Len(args) < 2
           THEN raiseRTError
           ELSE IF functionalEval(args[1])
           THEN /\ handler' = "core_iff_next"
                /\ evals' = Append(evals, args[1])
                /\ Suspended(EvalFrame(args[1]))
                /\ UNCHANGED <<locals, regA, calls>>
           ELSE LET sel == iff_select(args[1], args) IN
                /\ handler' = "none"
                /\ evals' = Append(evals, args[1]) \o sel
                /\ IF sel # <<>> /\ functionalEval(sel[1])
                   THEN regA' = args[1] /\ Suspended(EvalFrame(sel[1]))
                   ELSE regA' = (IF sel = <<>> THEN Nil ELSE sel[1]) /\ Returned
                /\ UNCHANGED <<locals, calls>>
    /\ UNCHANGED cvars

core_iff_next ==
    /\ pc = "Resumed"
    /\ handler = "core_iff_next"
    /\ handler' = "none"
    /\ LET sel == iff_select(regA, params) IN
        /\ evals' = evals \o sel
        /\ IF sel # <<>> /\ functionalEval(sel[1])
           THEN regA' = regA /\ Suspended(EvalFrame(sel[1]))
           ELSE regA' = (IF sel = <<>> THEN Nil ELSE sel[1]) /\ Unrolled
    /\ UNCHANGED <<func, params, locals, calls>>
    /\ UNCHANGED cvars

ChoiceArgs ==
    {<<>>} \cup {<<c>> : c \in Elems}
           \cup {<<c, a>> : c \in Elems, a \in {Sigma(1), Func("inc")}}
           \cup {<<c, a, b>> : c \in Elems, a \in {Sigma(1), Func("inc")},
                               b \in {Integer(2), Sigma(0), Func("mix")}}

choice_select_first(a, args) == args[2]
\* the alternative selected by the value of the selector, or nil
choice_select(a, args) ==
    IF isTrue(a) THEN args[2]
    ELSE IF Len(args) >= 3 THEN args[3] ELSE Nil

core_choice ==
    /\ pc = "idle"
    /\ \E args \in ChoiceArgs :
        /\ func' = "choice"
        /\ params' = args
        /\ IF Len(args) < 2
           THEN raiseRTError
           ELSE /\ evals' = Append(evals, args[1])
                /\ IF functionalEval(args[1])
                   THEN /\ handler' = "core_choice_next"
                        /\ regA' = regA
                        /\ Suspended(EvalFrame(args[1]))
                   ELSE /\ handler' = "none"
                        /\ regA' = choice_select(args[1], args)
                        /\ Returned
                /\ UNCHANGED <<locals, calls>>
    /\ UNCHANGED cvars

core_choice_next ==
    /\ pc = "Resumed"
    /\ handler = "core_choice_next"
    /\ regA' = choice_select(regA, params)
    /\ Unrolled
    /\ UNCHANGED <<func, params, locals, handler, calls, evals>>
    /\ UNCHANGED cvars

-----------------------------------------------------------------------------
(* eq *)

\* the dictionaries of the test bench, by identity: 1 and 2 hold the same
\* entry, 3 another value for the same key, 4 and 5 are empty
DictIds == 1..5
DictEntries(id) ==
    CASE id \in {1, 2} -> <<[key |-> Integer(1), value |-> Integer(2)]>>
      [] id = 3 -> <<[key |-> Integer(1), value |-> Integer(0)]>>
      [] OTHER -> <<>>
\* live is false once the dictionary has been deleted
Dict(id) == [tag |-> "dict", id |-> id, entries |-> DictEntries(id), live |-> TRUE, oob |-> FALSE]
isDict(itm) == itm.tag = "dict"

EqItems ==
    {Integer(0), Integer(1), Nil}
    \cup {Arr(<<>>), Arr(<<Integer(1)>>), Arr(<<Integer(1), Integer(0)>>)}
    \cup {Dict(id) : id \in DictIds}
    \cup {Arr(<<Dict(1)>>), Arr(<<Dict(2)>>), Arr(<<Integer(1), Dict(3)>>),
          Arr(<<Integer(1), Dict(4)>>)}
EqArgs == {<<a>> : a \in EqItems} \cup {<<a, b>> : a \in EqItems, b \in EqItems}

\* first == second || vm->compareItems( first, second ) == 0: the same
\* scalar value or the same object
eq_same(first, second) == first = second

EqTrue == [out |-> "true", dead |-> {}]
EqFalse == [out |-> "false", dead |-> {}]

\* out: what internal_eq returns, or "hang" when it does not return;
\* dead: the dictionaries it has deleted
RECURSIVE internal_eq(_, _)
RECURSIVE eq_arrays(_, _, _)
eq_arrays(arr1, arr2, p) ==
    IF p > Len(arr1) THEN EqTrue
    ELSE LET r == internal_eq(arr1[p], arr2[p]) IN
         IF r.out # "true" THEN r
         ELSE LET q == eq_arrays(arr1, arr2, p + 1)
              IN [out |-> q.out, dead |-> r.dead \cup q.dead]

\* the loop over the entries of two dictionaries of the same length: the
\* iterators stay on the first entry
eq_dicts(d1, d2) ==
    IF d1.entries = <<>>
    THEN [out |-> "true", dead |-> {d1.id, d2.id}]
    ELSE LET k == internal_eq(d1.entries[1].key, d2.entries[1].key)
             v == internal_eq(d1.entries[1].value, d2.entries[1].value)
         IN IF k.out = "hang" \/ (k.out = "true" /\ v.out = "hang")
            THEN [out |-> "hang", dead |-> k.dead \cup v.dead]
            ELSE IF k.out = "false" \/ v.out = "false"
            THEN [out |-> "false", dead |-> k.dead \cup v.dead \cup {d1.id, d2.id}]
            ELSE [out |-> "hang", dead |-> k.dead \cup v.dead]

internal_eq(first, second) ==
    IF eq_same(first, second) THEN EqTrue
    ELSE IF isArray(first) /\ isArray(second)
    THEN IF Len(first.elems) # Len(second.elems) THEN EqFalse
         ELSE eq_arrays(first.elems, second.elems, 1)
    ELSE IF isDict(first) /\ isDict(second)
    THEN IF Len(first.entries) # Len(second.entries) THEN EqFalse
         ELSE eq_dicts(first, second)
    ELSE EqFalse

\* the item once the dictionaries in dead are deleted
deleted(itm, dead) ==
    LET del(d) == IF isDict(d) /\ d.id \in dead THEN [d EXCEPT !.live = FALSE] ELSE d
    IN IF isArray(itm)
       THEN [itm EXCEPT !.elems = [k \in 1..Len(itm.elems) |-> del(itm.elems[k])]]
       ELSE del(itm)

core_eq ==
    /\ pc = "idle"
    /\ \E args \in EqArgs :
        /\ func' = "eq"
        /\ IF Len(args) < 2
           THEN params' = args /\ raiseRTError
           ELSE LET r == internal_eq(args[1], args[2]) IN
                /\ params' = <<deleted(args[1], r.dead), deleted(args[2], r.dead)>>
                /\ IF r.out = "hang"
                   THEN pc' = "Hung" /\ regA' = regA
                   ELSE pc' = "Resumed" /\ regA' = Integer(IF r.out = "true" THEN 1 ELSE 0)
                /\ frame' = NoFrame
                /\ UNCHANGED <<locals, handler, calls, evals>>
    /\ UNCHANGED cvars

-----------------------------------------------------------------------------

Next ==
    \/ ExecFrame
    \/ ExecFrameRaise
    \/ callReturn
    \/ core_reduce
    \/ core_reduce_next
    \/ core_map
    \/ core_map_next
    \/ core_xmap
    \/ core_xmap_next
    \/ core_filter
    \/ core_filter_next
    \/ core_any
    \/ core_any_next
    \/ core_all
    \/ core_all_next
    \/ core_dolist
    \/ core_dolist_next
    \/ core_cascade
    \/ core_cascade_next
    \/ core_floop
    \/ core_floop_next
    \/ core_times
    \/ core_times_next
    \/ core_iff
    \/ core_iff_next
    \/ core_choice
    \/ core_choice_next
    \/ core_eq
    \/ core_anyp
    \/ core_anyp_next
    \/ core_allp
    \/ core_allp_next

Spec == Init /\ [][Next]_vars

-----------------------------------------------------------------------------
(* ItemList and ItemListIterator (itemlist.h) *)

\* cap on the elements of the list and on the iterators alive at a time
MaxNodes == 3
MaxIters == 2

\* An element is known by a number above zero (its address); 0 is the null
\* pointer.  An iterator is known by its place in the registry and is
\* [element |-> the element it is on, or 0 when it is not valid].
Elements == 1..MaxNodes

inList(elem) == \E k \in 1..Len(elements) : elements[k] = elem
indexOf(els, elem) == CHOOSE k \in 1..Len(els) : els[k] = elem
\* elem->next_of()
next_of(els, elem) ==
    IF indexOf(els, elem) < Len(els) THEN els[indexOf(els, elem) + 1] ELSE 0
\* elem->prev_of()
prev_of(els, elem) ==
    IF indexOf(els, elem) > 1 THEN els[indexOf(els, elem) - 1] ELSE 0
\* the chain without elem
unlink(els, elem) ==
    SubSeq(els, 1, indexOf(els, elem) - 1) \o SubSeq(els, indexOf(els, elem) + 1, Len(els))
\* the chain with a new element put before elem, or at the tail for 0
link(els, elem, new) ==
    IF elem = 0 THEN Append(els, new)
    ELSE SubSeq(els, 1, indexOf(els, elem) - 1) \o <<new>>
         \o SubSeq(els, indexOf(els, elem), Len(els))
\* new ItemListElement
newElement == CHOOSE e \in Elements : ~inList(e)
\* the iterators that are on elem
onElement(iters, elem) == {k \in 1..Len(iters) : iters[k].element = elem}

notifyDeletion_first(iters, elem, successor) ==
    [k \in 1..Len(iters) |->
        IF iters[k].element = elem /\ \A j \in 1..(k - 1) : iters[j].element # elem
        THEN [iters[k] EXCEPT !.element = successor] ELSE iters[k]]
\* every iterator on elem goes to the element that follows it, or is
\* invalidated if there is none
notifyDeletion(iters, elem, successor) ==
    [k \in 1..Len(iters) |->
        IF iters[k].element = elem THEN [iters[k] EXCEPT !.element = successor]
        ELSE iters[k]]

erase_returns_prev(els, elem) == prev_of(els, elem)
\* what ItemList::erase( elem ) returns
erase_returns(els, elem) == next_of(els, elem)

ListOp(name, args, ret, on) == [name |-> name, args |-> args, ret |-> ret, on |-> on]

\* the element elem is taken out of the list
erased(name, args, elem) ==
    /\ elements' = unlink(elements, elem)
    /\ m_iters' = notifyDeletion(m_iters, elem, next_of(elements, elem))
    /\ lop' = ListOp(name, args, erase_returns(elements, elem), onElement(m_iters, elem))

ItemList_push_back ==
    /\ Len(elements) < MaxNodes
    /\ elements' = Append(elements, newElement)
    /\ lop' = ListOp("push_back", <<newElement>>, 0, {})
    /\ UNCHANGED <<vmvars, avars, m_iters>>

ItemList_push_front ==
    /\ Len(elements) < MaxNodes
    /\ elements' = <<newElement>> \o elements
    /\ lop' = ListOp("push_front", <<newElement>>, 0, {})
    /\ UNCHANGED <<vmvars, avars, m_iters>>

ItemList_pop_back ==
    /\ IF elements = <<>>
       THEN lop' = ListOp("pop_back", <<>>, 0, {}) /\ UNCHANGED <<elements, m_iters>>
       ELSE erased("pop_back", <<>>, elements[Len(elements)])
    /\ UNCHANGED <<vmvars, avars>>

ItemList_pop_front ==
    /\ IF elements = <<>>
       THEN lop' = ListOp("pop_front", <<>>, 0, {}) /\ UNCHANGED <<elements, m_iters>>
       ELSE erased("pop_front", <<>>, elements[1])
    /\ UNCHANGED <<vmvars, avars>>

ItemList_clear ==
    /\ elements' = <<>>
    /\ m_iters' = [k \in 1..Len(m_iters) |-> [m_iters[k] EXCEPT !.element = 0]]
    /\ lop' = ListOp("clear", <<>>, 0, {})
    /\ UNCHANGED <<vmvars, avars>>

\* ItemList::erase( ItemListElement *elem ), elem an element of the list
ItemList_erase ==
    /\ \E elem \in Elements :
        /\ inList(elem)
        /\ erased("erase", <<elem>>, elem)
    /\ UNCHANGED <<vmvars, avars>>

\* ItemList::insert( ItemListElement *elem, const Item &item )
ItemList_insert ==
    /\ Len(elements) < MaxNodes
    /\ \E elem \in Elements \cup {0} :
        /\ elem = 0 \/ inList(elem)
        /\ elements' = link(elements, elem, newElement)
        /\ lop' = ListOp("insert", <<elem, newElement>>, 0, {})
    /\ UNCHANGED <<vmvars, avars, m_iters>>

\* ItemList::getIterator( tail ): the iterator registers itself
ItemList_getIterator ==
    /\ Len(m_iters) < MaxIters
    /\ \E tail \in BOOLEAN :
        LET elem == IF elements = <<>> THEN 0
                ELSE IF tail THEN elements[Len(elements)] ELSE elements[1]
        IN /\ m_iters' = <<[element |-> elem]>> \o m_iters
           /\ lop' = ListOp("getIterator", <<tail>>, elem, {})
    /\ UNCHANGED <<vmvars, avars, elements>>

\* ~ItemListIterator(): the iterator leaves the registry
ItemListIterator_delete ==
    /\ \E k \in 1..Len(m_iters) :
        /\ m_iters' = SubSeq(m_iters, 1, k - 1) \o SubSeq(m_iters, k + 1, Len(m_iters))
        /\ lop' = ListOp("~ItemListIterator", <<k>>, 0, {})
    /\ UNCHANGED <<vmvars, avars, elements>>

ItemListIterator_next ==
    /\ \E k \in 1..Len(m_iters) :
        /\ m_iters[k].element # 0
        /\ m_iters' = [m_iters EXCEPT ![k].element = next_of(elements, m_iters[k].element)]
        /\ lop' = ListOp("next", <<k>>, next_of(elements, m_iters[k].element), {})
    /\ UNCHANGED <<vmvars, avars, elements>>

ItemListIterator_prev ==
    /\ \E k \in 1..Len(m_iters) :
        /\ m_iters[k].element # 0
        /\ m_iters' = [m_iters EXCEPT ![k].element = prev_of(elements, m_iters[k].element)]
        /\ lop' = ListOp("prev", <<k>>, prev_of(elements, m_iters[k].element), {})
    /\ UNCHANGED <<vmvars, avars, elements>>

\* ItemListIterator::erase(): false when the iterator is not valid
ItemListIterator_erase ==
    /\ \E k \in 1..Len(m_iters) :
        IF m_iters[k].element = 0
        THEN /\ lop' = ListOp("iterator erase", <<k>>, 0, {})
             /\ UNCHANGED <<elements, m_iters>>
        ELSE erased("iterator erase", <<k, m_iters[k].element>>, m_iters[k].element)
    /\ UNCHANGED <<vmvars, avars>>

\* ItemListIterator::insert( item ): before the current element, at the
\* tail for an iterator that is not valid
ItemListIterator_insert ==
    /\ Len(elements) < MaxNodes
    /\ \E k \in 1..Len(m_iters) :
        /\ elements' = link(elements, m_iters[k].element, newElement)
        /\ lop' = ListOp("iterator insert", <<k, newElement>>, 0, {})
    /\ UNCHANGED <<vmvars, avars, m_iters>>

InitList ==
    /\ VMIdle /\ ArrayIdle /\ ListIdle

NextList ==
    \/ ItemList_push_back
    \/ ItemList_push_front
    \/ ItemList_pop_back
    \/ ItemList_pop_front
    \/ ItemList_clear
    \/ ItemList_erase
    \/ ItemList_insert
    \/ ItemList_getIterator
    \/ ItemListIterator_delete
    \/ ItemListIterator_next
    \/ ItemListIterator_prev
    \/ ItemListIterator_erase
    \/ ItemListIterator_insert

SpecList == InitList /\ [][NextList]_vars

-----------------------------------------------------------------------------
(* ItemArray (itemarray.cpp) *)

\* An item is a number here: 0 is the nil item (all bits zero).  Junk is
\* what a slot holds that was allocated and never written.
ItemVals == {0, 1}
Junk == 2

\* cap on the buffers of the arrays explored
MaxAlloc == 3
flc_ARRAY_GROWTH == 2

\* int32 and uint32 parameters
Indexes == (0 - MaxAlloc - 1)..(MaxAlloc + 1)
Counts == 0..(MaxAlloc + 1)
\* the arrays given as `other' or `src'
Others == {<<>>, <<1>>, <<1, 0>>}

\* memAlloc( esize( n ) )
memAlloc(n) == [k \in 1..n |-> Junk]
\* memRealloc( buf, esize( n ) )
memRealloc(buf, n) == [k \in 1..n |-> IF k <= Len(buf) THEN buf[k] ELSE Junk]
\* the item read from slot i of buf
slot(buf, i) == IF i >= 0 /\ i < Len(buf) THEN buf[i + 1] ELSE Junk
\* buf[ i ] = v
store(buf, i, v) == [k \in 1..Len(buf) |-> IF k = i + 1 THEN v ELSE buf[k]]
\* memcpy / memmove( dst + d, src + s, esize( n ) )
memcpy(dst, d, src, s, n) ==
    [k \in 1..Len(dst) |->
        IF k - 1 >= d /\ k - 1 < d + n THEN slot(src, s + (k - 1 - d)) ELSE dst[k]]
\* memset( buf + d, 0, esize( n ) )
memset(buf, d, n) ==
    [k \in 1..Len(buf) |-> IF k - 1 >= d /\ k - 1 < d + n THEN 0 ELSE buf[k]]
\* does an access to n slots from slot i leave the buffer?
outside(buf, i, n) == n > 0 /\ (i < 0 \/ i + n > Len(buf))

\* the array operated on
this == [alloc |-> m_alloc, size |-> m_size, data |-> m_data]
\* what an operation leaves: the array, the value returned ("void" when
\* there is none), the array it has created (partition: its buffer, m_size
\* and m_alloc) and whether it went outside of a buffer
Outcome(alloc, size, data, ret, wild) ==
    [alloc |-> alloc, size |-> size, data |-> data, ret |-> ret,
     out |-> <<>>, outsize |-> 0, outalloc |-> 0, created |-> FALSE, wild |-> wild,
     fatal |-> FALSE]
Untouched(a, ret) == Outcome(a.alloc, a.size, a.data, ret, FALSE)

normalize_absolute(pos, size) == IF pos < 0 THEN 0 - pos ELSE pos
\* if ( pos < 0 ) pos = m_size + pos;
normalize(pos, size) == IF pos < 0 THEN size + pos ELSE pos

append_item_late_growth(a, ndata) ==
    LET grow == a.alloc < a.size
        alloc == IF grow THEN a.size + flc_ARRAY_GROWTH ELSE a.alloc
        data == IF grow THEN memRealloc(a.data, alloc) ELSE a.data
    IN Outcome(alloc, a.size + 1, store(data, a.size, ndata), "void",
               outside(data, a.size, 1))

append_item(a, ndata) ==
    LET grow == a.alloc <= a.size
        alloc == IF grow THEN a.size + flc_ARRAY_GROWTH ELSE a.alloc
        data == IF grow THEN memRealloc(a.data, alloc) ELSE a.data
    IN Outcome(alloc, a.size + 1, store(data, a.size, ndata), "void",
               outside(data, a.size, 1))

merge_array(a, other) ==
    IF Len(other) = 0 THEN Untouched(a, "void")
    ELSE LET grow == a.alloc < a.size + Len(other)
             alloc == IF grow THEN a.size + Len(other) ELSE a.alloc
             data == IF grow THEN memRealloc(a.data, alloc) ELSE a.data
         IN Outcome(alloc, a.size + Len(other),
                    memcpy(data, a.size, other, 0, Len(other)), "void",
                    outside(data, a.size, Len(other)))

prepend_item(a, ndata) ==
    LET mem == memAlloc(a.size + 1)
        mem1 == IF a.size # 0 THEN memcpy(mem, 1, a.data, 0, a.size) ELSE mem
    IN Outcome(a.size + 1, a.size + 1, store(mem1, 0, ndata), "void",
               outside(a.data, 0, a.size))

merge_front_array(a, other) ==
    IF Len(other) = 0 THEN Untouched(a, "void")
    ELSE IF a.alloc < a.size + Len(other)
    THEN LET alloc == a.size + Len(other)
             mem == memcpy(memAlloc(alloc), 0, other, 0, Len(other))
             mem1 == IF a.size > 0 THEN memcpy(mem, Len(other), a.data, 0, a.size) ELSE mem
         IN Outcome(alloc, alloc, mem1, "void", outside(a.data, 0, a.size))
    ELSE LET data == memcpy(a.data, Len(other), a.data, 0, a.size)
         IN Outcome(a.alloc, a.size + Len(other),
                    memcpy(data, 0, other, 0, Len(other)), "void",
                    outside(a.data, Len(other), a.size))

insert_item_no_shift(a, ndata, pos0) ==
    LET pos == normalize(pos0, a.size) IN
    IF pos < 0 \/ pos > a.size THEN Untouched(a, "false")
    ELSE LET data == IF a.alloc <= a.size
                     THEN memRealloc(a.data, a.size + flc_ARRAY_GROWTH) ELSE a.data
         IN Outcome(Len(data), a.size + 1, store(data, pos, ndata), "true", FALSE)

insert_item(a, ndata, pos0) ==
    LET pos == normalize(pos0, a.size) IN
    IF pos < 0 \/ pos > a.size THEN Untouched(a, "false")
    ELSE IF a.alloc <= a.size
    THEN LET alloc == a.size + flc_ARRAY_GROWTH
             mem == IF pos > 0 THEN memcpy(memAlloc(alloc), 0, a.data, 0, pos)
                    ELSE memAlloc(alloc)
             mem1 == IF pos < a.size THEN memcpy(mem, pos + 1, a.data, pos, a.size - pos)
                     ELSE mem
         IN Outcome(alloc, a.size + 1, store(mem1, pos, ndata), "true",
                    outside(a.data, 0, a.size))
    ELSE LET data == IF pos < a.size
                     THEN memcpy(a.data, pos + 1, a.data, pos, a.size - pos)
                     ELSE a.data
         IN Outcome(a.alloc, a.size + 1, store(data, pos, ndata), "true",
                    outside(a.data, pos, a.size - pos + 1))

insert_array(a, other, pos0) ==
    IF Len(other) = 0 THEN Untouched(a, "true")
    ELSE LET pos == normalize(pos0, a.size)
             n == Len(other)
         IN
    IF pos < 0 \/ pos > a.size THEN Untouched(a, "false")
    ELSE IF a.alloc < a.size + n
    THEN LET alloc == a.size + n
             mem == IF pos > 0 THEN memcpy(memAlloc(alloc), 0, a.data, 0, pos)
                    ELSE memAlloc(alloc)
             mem1 == IF pos < a.size THEN memcpy(mem, pos + n, a.data, pos, a.size - pos)
                     ELSE mem
         IN Outcome(alloc, alloc, memcpy(mem1, pos, other, 0, n), "true",
                    outside(a.data, 0, a.size))
    ELSE LET data == IF pos < a.size
                     THEN memcpy(a.data, n + pos, a.data, pos, a.size - pos)
                     ELSE a.data
         IN Outcome(a.alloc, a.size + n, memcpy(data, pos, other, 0, n), "true",
                    outside(a.data, pos, a.size - pos + n))

remove_range_no_swap(a, first0, last0) ==
    LET f == normalize(first0, a.size)
        l == normalize(last0, a.size)
    IN
    IF f < 0 \/ f >= a.size THEN Untouched(a, "false")
    ELSE IF l < 0 \/ l > a.size THEN Untouched(a, "false")
    ELSE LET first == IF f > l THEN l ELSE f
             last == IF f > l THEN f ELSE l
         IN Outcome(a.alloc, a.size - (last - first),
                    memcpy(a.data, first, a.data, last, a.size - last), "true", FALSE)

remove_range(a, first0, last0) ==
    LET f == normalize(first0, a.size)
        l == normalize(last0, a.size)
    IN
    IF f < 0 \/ f >= a.size THEN Untouched(a, "false")
    ELSE IF l < 0 \/ l > a.size THEN Untouched(a, "false")
    ELSE LET first == IF f > l THEN l ELSE f
             last == IF f > l THEN f + 1 ELSE l
             data == IF last < a.size
                     THEN memcpy(a.data, first, a.data, last, a.size - last)
                     ELSE a.data
         IN Outcome(a.alloc, a.size - (last - first), data, "true",
                    last < a.size /\ outside(a.data, last, a.size - last))

remove_at(a, first0) ==
    LET first == normalize(first0, a.size) IN
    IF first < 0 \/ first >= a.size THEN Untouched(a, "false")
    ELSE LET move == first < a.size - 1
             data == IF move
                     THEN memcpy(a.data, first, a.data, first + 1, a.size - first)
                     ELSE a.data
         IN Outcome(a.alloc, a.size - 1, data, "true",
                    move /\ outside(a.data, first + 1, a.size - first))

\* stands for the largest uint32, 4294967295, that a length below zero wraps
\* around to (the number itself is beyond the integers TLC handles)
UINT32_MAX == 2147483647

change_array(a, other, begin0, end0) ==
    LET b == normalize(begin0, a.size)
        e == normalize(end0, a.size)
        n == Len(other)
    IN
    IF b < 0 \/ b > a.size THEN Untouched(a, "false")
    ELSE IF e < 0 \/ e > a.size THEN Untouched(a, "false")
    ELSE LET begin == IF b > e THEN e ELSE b
             end == IF b > e THEN b + 1 ELSE e
             rsize == end - begin
             size == a.size - rsize + n
         IN
         IF size < 0
         THEN \* m_size - rsize + other.m_size is UINT32_MAX: a buffer of that
              \* many items is asked for, and taken for the array
              [Outcome(UINT32_MAX, UINT32_MAX, <<>>, "true", TRUE) EXCEPT !.fatal = TRUE]
         ELSE IF size > a.alloc
         THEN LET mem == IF begin > 0 THEN memcpy(memAlloc(size), 0, a.data, 0, begin)
                         ELSE memAlloc(size)
                  mem1 == IF n > 0 THEN memcpy(mem, begin, other, 0, n) ELSE mem
                  mem2 == IF end < a.size
                          THEN memcpy(mem1, begin + n, a.data, end, a.size - end)
                          ELSE mem1
              IN Outcome(size, size, mem2, "true", outside(mem, begin, n))
         ELSE LET data == IF end < a.size
                          THEN memcpy(a.data, begin + n, a.data, end, a.size - end)
                          ELSE a.data
                  data1 == IF n > 0 THEN memcpy(data, begin, other, 0, n) ELSE data
              IN Outcome(a.alloc, size, data1, "true", outside(a.data, begin, n))

insertSpace_at(a, pos, size) ==
    IF size = 0 THEN Untouched(a, "true")
    ELSE IF pos > a.size THEN Untouched(a, "false")
    ELSE IF a.alloc < a.size + size
    THEN LET alloc == ((a.size + size) \div flc_ARRAY_GROWTH + 1) * flc_ARRAY_GROWTH
             mem == IF pos > 0 THEN memcpy(memAlloc(alloc), 0, a.data, 0, pos)
                    ELSE memAlloc(alloc)
             mem1 == IF pos < a.size
                     THEN memcpy(mem, pos + size, a.data, pos, a.size - pos)
                     ELSE mem
             \* the nil items are written in the buffer that is freed next
         IN Outcome(alloc, a.size + size, mem1, "true", outside(a.data, pos, size))
    ELSE LET data == IF pos < a.size
                     THEN memcpy(a.data, size + pos, a.data, pos, a.size - pos)
                     ELSE a.data
         IN Outcome(a.alloc, a.size + size, memset(data, pos, size), "true", FALSE)

partition_range_open(a, start0, end0) ==
    LET start == normalize(start0, a.size)
        end == normalize(end0, a.size)
    IN
    IF start < 0 \/ start >= a.size THEN Untouched(a, "null")
    ELSE IF end < 0 \/ end > a.size THEN Untouched(a, "null")
    ELSE LET size == IF end < start THEN start - end ELSE end - start
             buffer == IF end < start
                       THEN [i \in 1..size |-> slot(a.data, start - (i - 1))]
                       ELSE IF end = start THEN <<>>
                       ELSE memcpy(memAlloc(size), 0, a.data, start, size)
         IN [Untouched(a, "array") EXCEPT
                !.created = TRUE, !.out = buffer, !.outsize = size, !.outalloc = size]

partition_range(a, start0, end0) ==
    LET start == normalize(start0, a.size)
        end == normalize(end0, a.size)
    IN
    IF start < 0 \/ start >= a.size THEN Untouched(a, "null")
    ELSE IF end < 0 \/ end > a.size THEN Untouched(a, "null")
    ELSE LET size == IF end < start THEN start - end + 1 ELSE end - start
             buffer == IF end < start
                       THEN [i \in 1..size |-> slot(a.data, start - (i - 1))]
                       ELSE IF end = start THEN <<>>
                       ELSE memcpy(memAlloc(size), 0, a.data, start, size)
         IN [Untouched(a, "array") EXCEPT
                !.created = TRUE, !.out = buffer, !.outsize = size, !.outalloc = size]

resize_to_in_place(a, size) ==
    IF size = 0 THEN Outcome(0, 0, <<>>, "void", FALSE)
    ELSE IF size > a.alloc
    THEN LET alloc == (size \div flc_ARRAY_GROWTH + 1) * flc_ARRAY_GROWTH
             data == memRealloc(a.data, alloc)
         IN Outcome(alloc, size, memset(data, a.size, alloc - a.size), "void", FALSE)
    ELSE IF size > a.size
    THEN Outcome(a.alloc, size, a.data, "void", FALSE)
    ELSE Outcome(a.alloc, size, a.data, "void", FALSE)

resize_to(a, size) ==
    IF size = 0 THEN Outcome(0, 0, <<>>, "void", FALSE)
    ELSE IF size > a.alloc
    THEN LET alloc == (size \div flc_ARRAY_GROWTH + 1) * flc_ARRAY_GROWTH
             data == memRealloc(a.data, alloc)
         IN Outcome(alloc, size, memset(data, a.size, alloc - a.size), "void", FALSE)
    ELSE IF size > a.size
    THEN Outcome(a.alloc, size, memset(a.data, a.size, size - a.size), "void", FALSE)
    ELSE Outcome(a.alloc, size, a.data, "void", FALSE)

compact_array(a) ==
    IF a.size = 0 THEN Outcome(0, 0, <<>>, "void", FALSE)
    ELSE IF a.size < a.alloc
    THEN Outcome(a.size, a.size, memRealloc(a.data, a.size), "void", FALSE)
    ELSE Untouched(a, "void")

reserve_slots_exactly(a, size) ==
    Outcome(size, a.size, memRealloc(a.data, size), "void", FALSE)

reserve_slots(a, size) ==
    IF size > a.alloc
    THEN Outcome(size, a.size, memRealloc(a.data, size), "void", FALSE)
    ELSE Untouched(a, "void")

\* ret "undefined": the function ends without a return statement
copyOnto_from(a, from, src, first, amount0) ==
    IF first > Len(src) THEN Untouched(a, "false")
    ELSE LET amount == IF first + amount0 > Len(src) THEN Len(src) - first ELSE amount0 IN
         IF from > a.size THEN Untouched(a, "false")
         ELSE LET r == IF from + amount > a.size THEN resize_to(a, from + amount)
                       ELSE Untouched(a, "void")
              IN Outcome(r.alloc, r.size, memcpy(r.data, from, src, first, amount),
                         "undefined", outside(r.data, from, amount))

\* ItemArray( const ItemArray& other )
copy_of(other) ==
    IF other.size # 0
    THEN Outcome(other.size, other.size,
                 memcpy(memAlloc(other.size), 0, other.data, 0, other.size), "void", FALSE)
    ELSE Outcome(0, 0, <<>>, "void", FALSE)

\* the operation is done on the array: it has left r
Performed(name, args, r) ==
    /\ r.fatal \/ r.alloc <= MaxAlloc
    /\ m_alloc' = r.alloc
    /\ m_size' = r.size
    /\ m_data' = r.data
    /\ \E ret \in (IF r.ret = "undefined" THEN {"true", "false"} ELSE {r.ret}),
          crashed \in (IF r.fatal THEN {TRUE} ELSE IF r.wild THEN BOOLEAN ELSE {FALSE}) :
         aop' = [name |-> name, args |-> args, ret |-> ret, out |-> r.out,
                 outsize |-> r.outsize, outalloc |-> r.outalloc,
                 created |-> r.created, wild |-> r.wild, crashed |-> crashed]
    /\ UNCHANGED <<vmvars, lvars>>

ItemArray_append ==
    /\ aop = NoOperation
    /\ \E ndata \in ItemVals : Performed("append", <<ndata>>, append_item(this, ndata))

ItemArray_merge ==
    /\ aop = NoOperation
    /\ \E other \in Others : Performed("merge", <<other>>, merge_array(this, other))

ItemArray_prepend ==
    /\ aop = NoOperation
    /\ \E ndata \in ItemVals : Performed("prepend", <<ndata>>, prepend_item(this, ndata))

ItemArray_merge_front ==
    /\ aop = NoOperation
    /\ \E other \in Others : Performed("merge_front", <<other>>, merge_front_array(this, other))

ItemArray_insert ==
    /\ aop = NoOperation
    /\ \E ndata \in ItemVals, pos \in Indexes :
           Performed("insert", <<ndata, pos>>, insert_item(this, ndata, pos))

ItemArray_insert_array ==
    /\ aop = NoOperation
    /\ \E other \in Others, pos \in Indexes :
           Performed("insert_array", <<other, pos>>, insert_array(this, other, pos))

ItemArray_remove ==
    /\ aop = NoOperation
    /\ \E first \in Indexes, last \in Indexes :
           Performed("remove", <<first, last>>, remove_range(this, first, last))

ItemArray_remove_at ==
    /\ aop = NoOperation
    /\ \E first \in Indexes : Performed("remove_at", <<first>>, remove_at(this, first))

ItemArray_change ==
    /\ aop = NoOperation
    /\ \E other \in Others, begin \in Indexes, end \in Indexes :
           Performed("change", <<other, begin, end>>, change_array(this, other, begin, end))

ItemArray_insertSpace ==
    /\ aop = NoOperation
    /\ \E pos \in Counts, size \in Counts :
           Performed("insertSpace", <<pos, size>>, insertSpace_at(this, pos, size))

ItemArray_partition ==
    /\ aop = NoOperation
    /\ \E start \in Indexes, end \in Indexes :
           Performed("partition", <<start, end>>, partition_range(this, start, end))

ItemArray_resize ==
    /\ aop = NoOperation
    /\ \E size \in Counts : Performed("resize", <<size>>, resize_to(this, size))

ItemArray_compact ==
    /\ aop = NoOperation
    /\ Performed("compact", <<>>, compact_array(this))

ItemArray_reserve ==
    /\ aop = NoOperation
    /\ \E size \in Counts : Performed("reserve", <<size>>, reserve_slots(this, size))

ItemArray_copyOnto ==
    /\ aop = NoOperation
    /\ \E from \in Counts, src \in Others, first \in Counts, amount \in Counts :
           Performed("copyOnto", <<from, src, first, amount>>,
                     copyOnto_from(this, from, src, first, amount))

ItemArray_copy ==
    /\ aop = NoOperation
    /\ Performed("copy", <<>>, copy_of(this))

\* the caller has taken the result of the operation and goes on, unless the
\* operation has ended the process
ItemArray_return ==
    /\ aop # NoOperation
    /\ ~aop.crashed
    /\ aop' = NoOperation
    /\ UNCHANGED <<vmvars, lvars, m_alloc, m_size, m_data>>

\* ItemArray() and ItemArray( prealloc )
InitArray ==
    /\ VMIdle /\ ListIdle
    /\ m_alloc \in 0..flc_ARRAY_GROWTH
    /\ m_size = 0
    /\ m_data = memAlloc(m_alloc)
    /\ aop = NoOperation

NextArray ==
    \/ ItemArray_append
    \/ ItemArray_merge
    \/ ItemArray_prepend
    \/ ItemArray_merge_front
    \/ ItemArray_insert
    \/ ItemArray_insert_array
    \/ ItemArray_remove
    \/ ItemArray_remove_at
    \/ ItemArray_change
    \/ ItemArray_insertSpace
    \/ ItemArray_partition
    \/ ItemArray_resize
    \/ ItemArray_compact
    \/ ItemArray_reserve
    \/ ItemArray_copyOnto
    \/ ItemArray_copy
    \/ ItemArray_return

SpecArray == InitArray /\ [][NextArray]_vars

-----------------------------------------------------------------------------
(* Properties *)

\* the value an item has once it is functionally evaluated
Evaluated(itm) ==
    CASE itm.tag = "sigma" -> Integer(itm.v)
      [] itm.tag = "lit" -> itm.of
      [] OTHER -> itm

\* the value the k-th pushed call returns
Res(k) == Apply(calls[k].fn, calls[k].args)

NotOob(itm) == ~isOob(itm)

Max0(a) == IF a > 0 THEN a ELSE 0

RECURSIVE FoldLeft(_, _, _)
FoldLeft(fn, acc, s) ==
    IF s = <<>> THEN acc ELSE FoldLeft(fn, Apply(fn, <<acc, s[1]>>), Tail(s))

Running(name) == func = name /\ pc \in {"AwaitingCall", "Resumed", "Done"}
Finished(name) == func = name /\ pc = "Done"

\* C1: reduce finishes with the left fold of the sequence: from init when it
\* is given, from the first element otherwise; init or nil for an empty
\* sequence, the element itself for a single element without init.
C1_ReduceLeftFold ==
    Finished("reduce") =>
        LET fn == params[1].name
            S == params[2].elems
        IN regA = IF Len(params) = 3 THEN FoldLeft(fn, params[3], S)
                  ELSE IF S = <<>> THEN Nil
                  ELSE FoldLeft(fn, S[1], Tail(S))

C1_Witness ==
    /\ Finished("reduce")
    /\ Len(params) = 3 /\ Len(params[2].elems) = 3 /\ params[1].name = "mix"
    /\ Len(calls) = 3

\* C2: the reductor is called length(S) times with init and
\* max(length(S)-1, 0) times without; each call gets the previous result
\* and the next unread element.
C2_ReduceCalls ==
    Running("reduce") =>
        LET S == params[2].elems
            off == IF Len(params) = 3 THEN 0 ELSE 1
            total == Max0(Len(S) - off)
        IN /\ Len(calls) <= total
           /\ pc = "Done" => Len(calls) = total
           /\ \A k \in 1..Len(calls) :
                /\ calls[k].fn = params[1].name
                /\ Len(calls[k].args) = 2
                /\ calls[k].args[2] = S[k + off]
                /\ calls[k].args[1] = IF k > 1 THEN Res(k - 1)
                                      ELSE IF off = 0 THEN params[3] ELSE S[1]

C2_Witness ==
    /\ Finished("reduce")
    /\ Len(params) = 2 /\ Len(params[2].elems) = 3
    /\ Len(calls) = 2

\* C3: map calls f once per literal element, in index order, and returns the
\* non-oob results in call order; nothing is functionally evaluated.
C3_MapResult ==
    Running("map") =>
        LET S == params[2].elems
            results == [k \in 1..Len(S) |-> Apply(params[1].name, <<S[k]>>)]
        IN /\ evals = <<>>
           /\ Len(calls) <= Len(S)
           /\ \A k \in 1..Len(calls) : calls[k] = CallFrame(params[1], <<S[k]>>)
           /\ pc = "Done" => /\ Len(calls) = Len(S)
                             /\ regA = Arr(SelectSeq(results, NotOob))

C3_Witness ==
    /\ Finished("map")
    /\ Len(params[2].elems) = 3
    /\ Len(regA.elems) = 2
    /\ \E k \in 1..3 : params[2].elems[k].tag = "sigma"

\* C4: xmap calls f once with the evaluated value of every element, the
\* last one included, and returns the non-oob results of f.
C4_XmapResult ==
    Finished("xmap") =>
        LET S == params[2].elems
            results == [k \in 1..Len(S) |-> Apply(params[1].name, <<Evaluated(S[k])>>)]
        IN /\ Len(calls) = Len(S)
           /\ \A k \in 1..Len(calls) : calls[k] = CallFrame(params[1], <<Evaluated(S[k])>>)
           /\ regA = Arr(SelectSeq(results, NotOob))

\* C5: filter calls f once per literal element, in index order, and returns
\* the elements for which f returned a true value, in their order.
C5_FilterResult ==
    Running("filter") =>
        LET S == params[2].elems
            Kept(e) == isTrue(Apply(params[1].name, <<e>>))
        IN /\ evals = <<>>
           /\ Len(calls) <= Len(S)
           /\ \A k \in 1..Len(calls) : calls[k] = CallFrame(params[1], <<S[k]>>)
           /\ pc = "Done" => /\ Len(calls) = Len(S)
                             /\ regA = Arr(SelectSeq(S, Kept))

C5_Witness ==
    /\ Finished("filter")
    /\ Len(params[2].elems) = 3
    /\ Len(regA.elems) = 2
    /\ params[1].name = "isZero"

\* the positions of S whose evaluated value is true (b = TRUE) or false
Positions(S, b) == {k \in 1..Len(S) : isTrue(Evaluated(S[k])) = b}
First(P) == CHOOSE k \in P : \A j \in P : k <= j

\* C6: all is false for an empty sequence, false at the first element that
\* evaluates to false, true if every element is true; the elements are
\* evaluated in index order and none after the first false one.
C6_AllShortCircuit ==
    Running("all") =>
        LET S == params[1].elems
            F == Positions(S, FALSE)
        IN /\ evals = SubSeq(S, 1, Len(evals))
           /\ F # {} => Len(evals) <= First(F)
           /\ calls = <<>>
           /\ pc = "Done" =>
                /\ regA = Integer(IF S # <<>> /\ F = {} THEN 1 ELSE 0)
                /\ Len(evals) = IF F # {} THEN First(F) ELSE Len(S)

C6_Witness ==
    /\ Finished("all")
    /\ Len(params[1].elems) = 3
    /\ Len(evals) = 2
    /\ evals[1].tag = "sigma" /\ evals[2].tag = "sigma"

\* C7: any is false for an empty sequence, otherwise true iff some element
\* evaluates to true; the elements are evaluated in index order and none
\* after the first true one.
C7_AnyShortCircuit ==
    Running("any") =>
        LET S == params[1].elems
            T == Positions(S, TRUE)
        IN /\ evals = SubSeq(S, 1, Len(evals))
           /\ T # {} => Len(evals) <= First(T)
           /\ calls = <<>>
           /\ pc = "Done" =>
                /\ regA = Integer(IF T # {} THEN 1 ELSE 0)
                /\ Len(evals) = IF T # {} THEN First(T) ELSE Len(S)

C7_Witness ==
    /\ Finished("any")
    /\ Len(params[1].elems) = 3
    /\ Len(evals) = 2
    /\ evals[1].tag = "sigma" /\ evals[2].tag = "int"

\* every element of the call list given to cascade is callable
AllCallable == \A k \in 1..Len(params[1].elems) : isCallable(params[1].elems[k])

\* the calls pushed so far whose result is not out of band
Accepted == {k \in 1..Len(calls) : ~isOob(Res(k))}
Last(P) == CHOOSE k \in P : \A j \in P : j <= k

\* the stages of cascade are called once each, in order, the first with args
CascadeStages ==
    LET callables == params[1].elems
    IN /\ Len(calls) <= Len(callables)
       /\ pc = "Done" => Len(calls) = Len(callables)
       /\ \A k \in 1..Len(calls) : calls[k].fn = callables[k].name
       /\ Len(calls) > 0 => calls[1].args = Tail(params)

\* the result of cascade when a stage accepted: that of the last stage if
\* it is not oob, otherwise the most recent accepted one
CascadeResult ==
    (pc = "Done" /\ Accepted # {}) => regA = Res(Last(Accepted))

\* C8 as stated: every stage after the first gets a single argument.
C8_CascadeSingleArgument ==
    (Running("cascade") /\ AllCallable /\ params[1].elems # <<>>) =>
        /\ CascadeStages
        /\ \A k \in 2..Len(calls) :
             /\ Len(calls[k].args) = 1
             /\ calls[k].args = IF ~isOob(Res(k - 1)) THEN <<Res(k - 1)>>
                                ELSE calls[k - 1].args
        /\ CascadeResult

\* C8, amended: every stage after the first gets the result of the stage
\* before it as single argument if that result is not oob, otherwise the
\* unchanged argument list that stage received.
C8_CascadeArguments ==
    (Running("cascade") /\ AllCallable /\ params[1].elems # <<>>) =>
        /\ CascadeStages
        /\ \A k \in 2..Len(calls) :
             calls[k].args = IF ~isOob(Res(k - 1)) THEN <<Res(k - 1)>>
                             ELSE calls[k - 1].args
        /\ CascadeResult

C8_Witness ==
    /\ Finished("cascade") /\ AllCallable
    /\ Len(calls) = 3
    /\ isOob(Res(1)) /\ Len(calls[2].args) = 2
    /\ ~isOob(Res(2)) /\ isOob(Res(3))

\* C9: called with one argument p and every stage declining, cascade
\* returns p.
C9_CascadeAllDecline ==
    (Finished("cascade") /\ AllCallable /\ Len(params) = 2
        /\ calls # <<>> /\ Accepted = {}) => regA = params[2]

\* C10: dolist evaluates every element in index order, calls f once with
\* each evaluated element whatever f returns, and returns the result of the
\* call of f on the last element.
C10_DolistAll ==
    (Finished("dolist") /\ params[2].elems # <<>>) =>
        LET S == params[2].elems
        IN /\ evals = S
           /\ Len(calls) = Len(S)
           /\ \A k \in 1..Len(calls) : calls[k] = CallFrame(params[1], <<Evaluated(S[k])>>)
           /\ regA = Apply(params[1].name, <<Evaluated(S[Len(S)])>>)

-----------------------------------------------------------------------------
(* floop *)

\* the handler of floop is about to be run on the result of a call
FloopResumed ==
    /\ func = "floop" /\ pc = "Resumed" /\ handler = "core_floop_next"
    /\ calls # <<>>

\* C11: as soon as an element of floop returns an out-of-band 0, floop
\* returns nil without a further call, its handler is removed and nothing
\* runs afterwards.
C11_FloopAbort ==
    [][ /\ (FloopResumed /\ isSignal(regA, 0)) =>
              /\ pc' = "Done"
              /\ regA' = Nil
              /\ calls' = calls
              /\ handler' = "none"
        /\ (func = "floop" /\ pc = "Done") => UNCHANGED vars
      ]_vars

C11_Witness ==
    /\ Finished("floop") /\ AllCallable
    /\ Len(calls) = 3
    /\ regA = Nil /\ handler = "none"

\* C12: floop starts with S[0]; after the element at position i it calls
\* S[(i+1) mod length], or S[0] after an out-of-band 1; it is only left on an
\* out-of-band 0.
C12_FloopOrder ==
    /\ [](Running("floop") /\ AllCallable /\ calls # <<>> =>
              calls[1] = CallFrame(params[1].elems[1], <<>>))
    /\ [][ (FloopResumed /\ AllCallable) =>
             LET S == params[1].elems
                 i == asInteger(locals[1])
                 j == IF isSignal(regA, 1) THEN 0 ELSE (i + 1) % Len(S)
             IN IF isSignal(regA, 0)
                THEN pc' = "Done"
                ELSE /\ pc' = "AwaitingCall"
                     /\ asInteger(locals'[1]) = j
                     /\ calls' = Append(calls, CallFrame(S[j + 1], <<>>))
         ]_vars

C12_Witness ==
    /\ func = "floop" /\ pc = "AwaitingCall" /\ AllCallable
    /\ Len(params[1].elems) = 3
    /\ Len(calls) = 4
    /\ asInteger(locals[1]) = 0

-----------------------------------------------------------------------------
(* times: C13, C14, C15 *)

TimesResumed ==
    /\ func = "times" /\ pc = "Resumed" /\ handler = "core_times_next"
    /\ calls # <<>>

\* every element of the sequence given to times is a function that never
\* returns an out-of-band value
PlainSequence ==
    /\ isArray(params[3]) /\ params[3].elems # <<>>
    /\ \A k \in 1..Len(params[3].elems) : params[3].elems[k] = Func("mix")

\* count is a number above zero or a closed range going up
CountsUp(count) ==
    \/ isOrdinal(count) /\ count.v > 0
    \/ isRange(count) /\ ~count.open /\ count.start < count.end /\ count.step > 0

UpperBound(count) == IF isRange(count) THEN count.end ELSE count.v

\* the loop indices: start, start+step, ... while below the upper bound
Indices(count) ==
    LET from == IF isRange(count) THEN count.start ELSE 0
        by == IF isRange(count) THEN count.step ELSE 1
        n == (UpperBound(count) - from + by - 1) \div by
    IN [k \in 1..n |-> from + (k - 1) * by]

\* C13: without out-of-band results, times runs the whole sequence in order
\* once per loop index (0..n-1 for a count n, start, start+step, ... below
\* the end for an up-range) and returns the upper bound of the range.
C13_TimesIndices ==
    (Finished("times") /\ PlainSequence /\ CountsUp(params[1])) =>
        LET S == params[3].elems
            idx == Indices(params[1])
        IN /\ Len(calls) = Len(idx) * Len(S)
           /\ \A k \in 1..Len(calls) :
                /\ calls[k].fn = S[((k - 1) % Len(S)) + 1].name
                /\ ~isParamByRef(params[2]) =>
                      calls[k].args = <<Integer(idx[((k - 1) \div Len(S)) + 1])>>
           /\ regA = Integer(UpperBound(params[1]))

\* C14: when an element returns an out-of-band 0 during the pass for index
\* i, times ends at once, without a further call, and returns i, whatever
\* the position of the element in the sequence.
C14_TimesBreak ==
    [][ (TimesResumed /\ isSignal(regA, 0)) =>
            /\ pc' = "Done"
            /\ calls' = calls
            /\ regA' = Integer(locals[1].start)
      ]_vars

\* C15: when an element returns an out-of-band 1 during the pass for index
\* i, the rest of the pass is skipped: if i+step is still in the range the
\* next call is S[0] with index i+step, a variable given by reference
\* holding i+step before it; otherwise times ends without a further call.
\* (An i+step that does not fit the int32 loop index is no index of the
\* range: there only the skipping of the rest of the pass is stated.)
C15_TimesContinue ==
    [][ (TimesResumed /\ isSignal(regA, 1)) =>
            LET S == params[3].elems
                r == locals[1]
                next == r.start + r.step
                inside == IF r.step > 0 THEN next < r.end ELSE next >= r.end
            IN IF overflows(r.start, r.step)
               THEN calls' # calls => asInteger(locals'[2]) = 1
               ELSE IF ~inside THEN pc' = "Done" /\ calls' = calls
               ELSE isCallable(S[1]) =>
                      /\ pc' = "AwaitingCall"
                      /\ asInteger(locals'[2]) = 1
                      /\ calls' = Append(calls, times_call(S[1], params[2], next))
                      /\ frame' = times_call(S[1], params[2], next)
                      /\ isParamByRef(params[2]) => params'[2] = Ref(next)
                      /\ S[1].tag = "func" /\ ~isParamByRef(params[2]) =>
                            frame'.args = <<Integer(next)>>
      ]_vars

C15_Witness ==
    /\ func = "times" /\ pc = "AwaitingCall"
    /\ Len(params[3].elems) = 2
    /\ Len(calls) = 2
    /\ asInteger(locals[2]) = 1
    /\ isParamByRef(params[2])
    /\ params[2].v = locals[1].start
    /\ params[1] = Range(0, 3, 2, FALSE) /\ locals[1].start = 2

-----------------------------------------------------------------------------
(* iff, choice: C16, C17 *)

\* the branch iff has to take for its parameters, if there is one
IffBranch(args) ==
    IF isTrue(Evaluated(args[1])) THEN <<args[2]>>
    ELSE IF Len(args) >= 3 THEN <<args[3]>> ELSE <<>>

\* the value of iff( args )
IffOutcome(args) ==
    IF IffBranch(args) = <<>> THEN Nil ELSE Evaluated(IffBranch(args)[1])

\* C16: iff evaluates cond first, then only the branch its value selects
\* (t when true, else f if given) and returns the value of that branch, or
\* nil when cond is false and f is absent; whether cond and the branch are
\* atoms or need a nested call.
C16_IffBranches ==
    Running("iff") =>
        /\ evals \in {<<params[1]>>, <<params[1]>> \o IffBranch(params)}
        /\ calls = <<>>
        /\ pc = "Done" =>
             /\ evals = <<params[1]>> \o IffBranch(params)
             /\ regA = IffOutcome(params)

C16_Witness ==
    /\ Finished("iff")
    /\ Len(params) = 3
    /\ params[1].tag = "sigma" /\ ~isTrue(Evaluated(params[1]))
    /\ params[3].tag = "sigma"
    /\ evals = <<params[1], params[3]>>
    /\ regA = Integer(0)

\* C17: choice evaluates the selector only, calls neither alternative and
\* returns the alternative itself: a when the selector is true, else b, or
\* nil if b is absent; which is the value of iff(selector, [lit, a], [lit, b]).
C17_ChoiceLiteral ==
    Running("choice") =>
        /\ evals = <<params[1]>>
        /\ calls = <<>>
        /\ frame \in {NoFrame, EvalFrame(params[1])}
        /\ pc = "Done" =>
             /\ regA = (IF isTrue(Evaluated(params[1])) THEN params[2]
                        ELSE IF Len(params) >= 3 THEN params[3] ELSE Nil)
             /\ regA = IffOutcome(<<params[1], Lit(params[2])>>
                                  \o (IF Len(params) >= 3 THEN <<Lit(params[3])>> ELSE <<>>))

C17_Witness ==
    /\ Finished("choice")
    /\ Len(params) = 3
    /\ params[1] = Sigma(1) /\ params[2] = Sigma(1)
    /\ regA = Sigma(1)

-----------------------------------------------------------------------------
(* eq: C18 *)

\* structural equality: arrays of the same length with equal elements,
\* dictionaries of the same length with equal keys and values entry by
\* entry, the same value for everything else
RECURSIVE StructEq(_, _)
StructEq(a, b) ==
    IF isArray(a) /\ isArray(b)
    THEN /\ Len(a.elems) = Len(b.elems)
         /\ \A k \in 1..Len(a.elems) : StructEq(a.elems[k], b.elems[k])
    ELSE IF isDict(a) /\ isDict(b)
    THEN /\ Len(a.entries) = Len(b.entries)
         /\ \A k \in 1..Len(a.entries) :
                /\ StructEq(a.entries[k].key, b.entries[k].key)
                /\ StructEq(a.entries[k].value, b.entries[k].value)
    ELSE a = b

\* no dictionary of the item has been deleted
Intact(itm) ==
    /\ isDict(itm) => itm.live
    /\ isArray(itm) => \A k \in 1..Len(itm.elems) :
                          isDict(itm.elems[k]) => itm.elems[k].live

\* C18: eq(a, b) terminates, returns true exactly when a and b are
\* structurally equal, and leaves both arguments as they were.
C18_EqStructural ==
    (func = "eq" /\ Len(params) = 2) =>
        /\ pc # "Hung"
        /\ Intact(params[1]) /\ Intact(params[2])
        /\ pc \in {"Resumed", "Done"} =>
              regA = Integer(IF StructEq(params[1], params[2]) THEN 1 ELSE 0)

-----------------------------------------------------------------------------
(* errors: C19, C20 *)

\* C19: an error about the arguments of a combinator is raised by its entry
\* function before anything else is done: no nested call or evaluation has
\* been pushed, no return handler is installed, no local is set.
C19_ErrorsAtEntry ==
    pc = "Error" =>
        /\ calls = <<>> /\ evals = <<>>
        /\ handler = "none"
        /\ locals = <<>>

\* the calls pushed so far that end with an error
Raising == {k \in 1..Len(calls) : Raises(calls[k].fn, calls[k].args)}

\* C20: when a call issued by map, xmap or filter ends with an error, the
\* combinator is aborted: its handler is not resumed, no further call is
\* made, and the result array built so far never gets to A.
C20_AbortOnError ==
    (func \in {"map", "xmap", "filter"} /\ Raising # {}) =>
        /\ Raising = {Len(calls)}
        /\ pc \in {"AwaitingCall", "Aborted"}
        /\ pc = "AwaitingCall" => frame = calls[Len(calls)]
        /\ ~isArray(regA)

C20_Witness ==
    /\ func = "map" /\ pc = "Aborted"
    /\ Len(calls) = 2 /\ Raising = {2}
    /\ locals[2] = Arr(<<Integer(1)>>)
    /\ handler = "core_map_next"

-----------------------------------------------------------------------------
(* ItemList: C21, C22 *)

\* the element that follows elem in the list, 0 after the tail
Following(elem) ==
    IF \E j \in 1..(Len(elements) - 1) : elements[j] = elem
    THEN elements[(CHOOSE j \in 1..(Len(elements) - 1) : elements[j] = elem) + 1]
    ELSE 0

\* every iterator of the registry is on an element of the list or not valid
Registered ==
    \A k \in 1..Len(m_iters) :
        m_iters[k].element = 0
        \/ \E j \in 1..Len(elements) : elements[j] = m_iters[k].element

\* the step erased elem through ItemList::erase or an iterator's erase()
Erasing(elem) ==
    /\ \E j \in 1..Len(elements) : elements[j] = elem
    /\ \/ lop'.name = "erase" /\ lop'.args = <<elem>>
       \/ lop'.name = "iterator erase" /\ Len(lop'.args) = 2 /\ lop'.args[2] = elem

C22_Erase ==
    [][ \A elem \in Elements : (lop'.name = "erase" /\ lop'.args = <<elem>>) =>
          /\ \E j \in 1..Len(elements) :
               /\ elements[j] = elem
               /\ elements' = SubSeq(elements, 1, j - 1) \o SubSeq(elements, j + 1, Len(elements))
          /\ Len(elements') = Len(elements) - 1
          /\ lop'.ret = Following(elem) ]_vars

C22_Witness ==
    /\ lop.name = "erase"
    /\ lop.args = <<2>>
    /\ lop.ret = 3
    /\ elements = <<1, 3>>

-----------------------------------------------------------------------------
(* ItemArray: C23 .. C30 *)

\* the elements of the array, in order
Contents == SubSeq(m_data, 1, m_size)
\* the operation done by the step taken
Done(name) == aop'.name = name
\* a position as the operations read it: a negative one counts from the end
Norm(pos, length) == IF pos < 0 THEN length + pos ELSE pos
\* s with the elements at indices lo .. hi-1 replaced by the elements of t
Splice(s, lo, hi, t) == SubSeq(s, 1, lo) \o t \o SubSeq(s, hi + 1, Len(s))

C24_Append ==
    [][ Done("append") =>
            /\ m_size' = m_size + 1
            /\ SubSeq(m_data', 1, m_size) = Contents
            /\ slot(m_data', m_size) = aop'.args[1]
      ]_vars

C24_Witness ==
    /\ aop.name = "append" /\ aop.args = <<0>>
    /\ m_size = 2 /\ m_alloc = 1 + flc_ARRAY_GROWTH
    /\ Contents = <<1, 0>>

\* C25: partition(0, length) gives a new array with the elements of the
\* array in the same order, for every array, the empty one included, and
\* leaves the array as it is.
C25_PartitionWhole ==
    [][ (Done("partition") /\ aop'.args = <<0, m_size>>) =>
            /\ aop'.ret = "array" /\ aop'.created
            /\ aop'.out = Contents
            /\ UNCHANGED <<m_alloc, m_size, m_data>>
      ]_vars

\* C26: insert at the negative position -k, k in 1..length, returns and
\* leaves what insert at length-k does.
C26_InsertNegative ==
    [][ (Done("insert") /\ aop'.args[2] < 0 /\ 0 - aop'.args[2] <= m_size) =>
            LET r == insert_item(this, aop'.args[1], m_size + aop'.args[2])
            IN /\ aop'.ret = r.ret
               /\ <<m_alloc', m_size', m_data'>> = <<r.alloc, r.size, r.data>>
               /\ slot(m_data', m_size + aop'.args[2]) = aop'.args[1]
      ]_vars

C26_Witness ==
    /\ aop.name = "insert" /\ aop.args = <<0, -1>> /\ aop.ret = "true"
    /\ Contents = <<1, 0, 1>>

\* C27: insert(value, pos) with the normalized pos in [0, length] returns
\* true and leaves A[0..pos) ++ [value] ++ A[pos..length), whether the buffer
\* is grown or not; with pos outside it returns false.
C27_Insert ==
    [][ Done("insert") =>
            LET pos == Norm(aop'.args[2], m_size) IN
            IF pos >= 0 /\ pos <= m_size
            THEN /\ aop'.ret = "true"
                 /\ m_size' = m_size + 1
                 /\ SubSeq(m_data', 1, m_size') = Splice(Contents, pos, pos, <<aop'.args[1]>>)
            ELSE aop'.ret = "false"
      ]_vars

C27_Witness ==
    /\ aop.name = "insert" /\ aop.args = <<0, 1>> /\ aop.ret = "true"
    /\ Contents = <<1, 0, 1>> /\ m_alloc = 3

\* is a position given to the operation outside of the array?
BadRange(name, args, length) ==
    LET bad(pos, max) == Norm(pos, length) < 0 \/ Norm(pos, length) > max IN
    CASE name = "insert_array" -> bad(args[2], length)
      [] name = "remove" -> bad(args[1], length - 1) \/ bad(args[2], length)
      [] name = "remove_at" -> bad(args[1], length - 1)
      [] name = "change" -> bad(args[2], length) \/ bad(args[3], length)
      [] name = "partition" -> bad(args[1], length - 1) \/ bad(args[2], length)
      [] name = "copyOnto" -> args[1] > length \/ args[3] > Len(args[2])

\* C28: insert(other, pos), remove(first, last), remove(first), change,
\* partition and copyOnto report a failure exactly when one of their
\* positions is outside of the array, whatever the other arguments.
C28_RangesChecked ==
    [][ aop'.name \in {"insert_array", "remove", "remove_at", "change",
                       "partition", "copyOnto"} =>
            (aop'.ret \in {"false", "null"} <=> BadRange(aop'.name, aop'.args, m_size))
      ]_vars

\* C29: when insert, remove, change, insertSpace or copyOnto reports a
\* failure, length, capacity and elements of the array are what they were.
C29_FailureLeavesArray ==
    [][ (/\ aop'.name \in {"insert", "insert_array", "remove", "remove_at",
                           "change", "insertSpace", "copyOnto"}
         /\ aop'.ret = "false") =>
            UNCHANGED <<m_alloc, m_size, m_data>>
      ]_vars

\* C30: remove(first, last) with valid arguments removes the elements at
\* [first, last), or at [last, first+1) when first > last; the other
\* elements keep their order, the length goes down by the number of elements
\* removed and the capacity stays.
C30_Remove ==
    [][ (/\ Done("remove")
         /\ Norm(aop'.args[1], m_size) >= 0 /\ Norm(aop'.args[1], m_size) < m_size
         /\ Norm(aop'.args[2], m_size) >= 0 /\ Norm(aop'.args[2], m_size) <= m_size) =>
            LET f == Norm(aop'.args[1], m_size)
                l == Norm(aop'.args[2], m_size)
                lo == IF f <= l THEN f ELSE l
                hi == IF f <= l THEN l ELSE f + 1
            IN /\ aop'.ret = "true"
               /\ m_size' = m_size - (hi - lo)
               /\ SubSeq(m_data', 1, m_size') = Splice(Contents, lo, hi, <<>>)
               /\ m_alloc' = m_alloc
      ]_vars

C30_Witness ==
    /\ aop.name = "remove" /\ aop.args = <<2, 1>> /\ aop.ret = "true"
    /\ Contents = <<1>> /\ m_alloc = 3

-----------------------------------------------------------------------------
(* ItemArray: C31 .. C34, C38, C39 *)

\* C31: change(other, begin, end) with the normalized begin and end in
\* [0, length] returns true and leaves A[0..b) ++ other ++ A[e..length),
\* [b, e) being [begin, end) when begin <= end and the range with the two
\* swapped, both ends in it, otherwise; e is not above the old length and
\* the new length is length - (e - b) + length(other), whether a new buffer
\* is taken or not.
C31_Change ==
    [][ (/\ Done("change")
         /\ Norm(aop'.args[2], m_size) >= 0 /\ Norm(aop'.args[2], m_size) <= m_size
         /\ Norm(aop'.args[3], m_size) >= 0 /\ Norm(aop'.args[3], m_size) <= m_size) =>
            LET other == aop'.args[1]
                begin == Norm(aop'.args[2], m_size)
                end == Norm(aop'.args[3], m_size)
                b == IF begin <= end THEN begin ELSE end
                e == IF begin <= end THEN end ELSE begin + 1
            IN /\ aop'.ret = "true"
               /\ e <= m_size
               /\ m_size' = m_size - (e - b) + Len(other)
               /\ SubSeq(m_data', 1, m_size') = Splice(Contents, b, e, other)
      ]_vars

\* C32: partition(start, end) with the normalized start in [0, length) and
\* end in [0, length] returns a new array: A[start..end) when end >= start,
\* and A[start], A[start-1], .., A[end] (start - end + 1 elements) when
\* end < start; the capacity of the new array is its length and the array
\* partitioned is left as it was.
C32_Partition ==
    [][ (/\ Done("partition")
         /\ Norm(aop'.args[1], m_size) >= 0 /\ Norm(aop'.args[1], m_size) < m_size
         /\ Norm(aop'.args[2], m_size) >= 0 /\ Norm(aop'.args[2], m_size) <= m_size) =>
            LET start == Norm(aop'.args[1], m_size)
                end == Norm(aop'.args[2], m_size)
            IN /\ aop'.ret = "array" /\ aop'.created
               /\ aop'.out = IF end >= start THEN SubSeq(Contents, start + 1, end)
                             ELSE [i \in 1..(start - end + 1) |-> Contents[start + 2 - i]]
               /\ aop'.outsize = Len(aop'.out)
               /\ aop'.outalloc = aop'.outsize
               /\ UNCHANGED <<m_alloc, m_size, m_data>>
      ]_vars

C32_Witness ==
    /\ aop.name = "partition" /\ aop.args = <<2, 0>> /\ aop.ret = "array"
    /\ Contents = <<1, 0, 0>>
    /\ aop.out = <<0, 0, 1>> /\ aop.outalloc = 3

C34_CopyOnto ==
    [][ (/\ Done("copyOnto")
         /\ aop'.args[3] <= Len(aop'.args[2])
         /\ aop'.args[1] <= m_size) =>
            LET from == aop'.args[1]
                src == aop'.args[2]
                first == aop'.args[3]
                n == IF aop'.args[4] < Len(src) - first THEN aop'.args[4]
                     ELSE Len(src) - first
            IN /\ m_size' = (IF from + n > m_size THEN from + n ELSE m_size)
               /\ \A i \in 0..(n - 1) : slot(m_data', from + i) = src[first + i + 1]
               /\ \A i \in 0..(m_size - 1) :
                     (i < from \/ i >= from + n) => slot(m_data', i) = slot(m_data, i)
               /\ aop'.ret = "true"
      ]_vars

\* C38: no operation of ItemArray reads or writes a slot outside of the
\* buffers it works on, for any arguments that its own checks accept.
C38_InsideBuffers == ~aop.wild

\* C39: insertSpace(pos, size) with pos <= length returns true and leaves
\* A[0..pos) ++ size nil items ++ A[pos..length), the length being size more,
\* whether the buffer is large enough or a new one is taken; with size = 0
\* it changes nothing.
C39_InsertSpace ==
    [][ (Done("insertSpace") /\ aop'.args[1] <= m_size) =>
            LET pos == aop'.args[1]
                size == aop'.args[2]
            IN /\ aop'.ret = "true"
               /\ m_size' = m_size + size
               /\ SubSeq(m_data', 1, m_size') =
                     Splice(Contents, pos, pos, [i \in 1..size |-> 0])
               /\ size = 0 => UNCHANGED <<m_alloc, m_size, m_data>>
      ]_vars

-----------------------------------------------------------------------------
(* Continuation protocol: C35 .. C37, C40 *)

\* C35: as long as every function of a cascade called so far has declined
\* with an out-of-band value, the next one is called with all the parameters
\* cascade was called with; once a function has accepted, every later one is
\* called with exactly one parameter.
C35_CascadeReplay ==
    func = "cascade" =>
        \A k \in 2..Len(calls) :
            IF \A j \in 1..(k - 1) : isOob(Res(j))
            THEN calls[k].args = Tail(params)
            ELSE Len(calls[k].args) = 1

C35_Witness ==
    /\ Finished("cascade")
    /\ Len(calls) = 3
    /\ Len(params) = 3
    /\ isOob(Res(1)) /\ isOob(Res(2)) /\ ~isOob(Res(3))
    /\ calls[3].args = Tail(params)

\* the return handler of the invocation is about to be run
Continuing == pc = "Resumed" /\ handler # "none"

\* C36: the return handler of a combinator is run only when a nested frame
\* pushed by the invocation has ended, never right after the entry function
\* with no frame pending; each run of it pushes exactly one further frame or
\* ends the invocation; once the invocation is done nothing of it runs.
C36_Protocol ==
    [][ /\ Continuing' => pc = "AwaitingCall"
        /\ Continuing =>
              \/ pc' = "AwaitingCall" /\ frame' # NoFrame /\ Len(calls') <= Len(calls) + 1
              \/ pc' = "Done" /\ frame' = NoFrame /\ calls' = calls
        /\ pc = "Done" => UNCHANGED vars
      ]_vars

\* the combinator f is given an empty sequence in the parameters p
EmptyInput(f, p) ==
    \/ f \in {"anyp", "allp"} /\ p = <<>>
    \/ f \in {"any", "all", "cascade", "floop"} /\ isArray(p[1]) /\ p[1].elems = <<>>
    \/ f \in {"map", "xmap", "filter", "reduce", "dolist"}
          /\ isArray(p[2]) /\ p[2].elems = <<>>
    \/ f = "times" /\ isArray(p[3]) /\ p[3].elems = <<>>

\* what the operation before the invocation may have left in A (see Init)
Leftover == Integer(4)

\* C37: given an empty sequence (no parameter at all for anyp and allp), a
\* combinator is over when its entry function returns: no frame was pushed,
\* its result is in A and no return handler is left installed.
C37_EmptyInInit ==
    [][ (pc = "idle" /\ pc' # "Error" /\ EmptyInput(func', params')) =>
            /\ pc' = "Resumed" /\ frame' = NoFrame
            /\ calls' = calls
            /\ regA' # Leftover
            /\ handler' = "none"
      ]_vars

\* the VM keeps running while a frame or a return handler is pending
SpecFair == Init /\ [][Next]_vars /\ WF_vars(Next)

Listed == {"any", "all", "anyp", "allp", "map", "xmap", "filter", "reduce",
           "cascade", "dolist", "iff", "choice", "times"}

\* the sequence the combinator goes through
Sequence ==
    CASE func \in {"reduce", "map", "xmap", "filter", "dolist"} -> params[2]
      [] func \in {"any", "all", "cascade"} -> params[1]
      [] func = "times" -> params[3]
      [] OTHER -> Arr(params)

\* the position kept in the frame locals l
Position(l) ==
    LET k == IF func \in {"filter", "times"} THEN 2 ELSE 1
    IN IF Len(l) >= k /\ l[k].tag = "int" THEN l[k].v ELSE 0

Looping == func \in Listed /\ pc \in {"AwaitingCall", "Resumed"}

\* the model stops following a loop that has made MaxCalls calls
Capped == func = "times" /\ Len(calls) >= MaxCalls

\* the loop index of times has moved towards the end of the range
Advanced(r, q) == IF r.step > 0 THEN q.start > r.start ELSE q.start < r.start

\* C40: a run of any, all, anyp, allp, map, xmap, filter, reduce, cascade,
\* dolist, iff, choice or times whose callables all return ends (Done) after
\* finitely many nested calls: the position kept in the locals stays within
\* the sequence and never goes back during a pass, and every new pass of
\* times moves the loop index towards the end of the range.
C40_Terminates ==
    /\ Looping ~> (pc \in {"Done", "Error", "Aborted"} \/ Capped)
    /\ [](Looping /\ func \notin {"iff", "choice"} =>
              /\ Position(locals) >= 0
              /\ Position(locals) <= Len(Sequence.elems))
    /\ [][ Looping /\ func \notin {"iff", "choice"} /\ locals' # locals =>
             IF func = "times" /\ locals'[1] # locals[1]
             THEN /\ Advanced(locals[1], locals'[1])
                  /\ pc' = "AwaitingCall" => Position(locals') = 1
             ELSE Position(locals') >= Position(locals)
         ]_vars

====
